---- MODULE Spec2Model ----
(***************************************************************************)
(* The Bitcask storage engine of zap-store                                 *)
(* (internal/storage/bitcask/bitcask.go): record codec, append-only log    *)
(* files, the startup scan that rebuilds the key directory, and the engine *)
(* operations NewBitCaskStorageEngine, Set, Get, Delete and Close on one   *)
(* data directory.                                                         *)
(*                                                                         *)
(* Strings are sequences of bytes (0..255) and a log file is the sequence  *)
(* of the bytes it holds.  Every engine operation runs under the engine's  *)
(* mutex and is one atomic step.  The environment chooses the wall-clock   *)
(* reading of every record (time.Now().UnixNano() is not monotonic), and   *)
(* how many bytes of an append reach the file before the write fails.      *)
(***************************************************************************)
EXTENDS Integers, Sequences, FiniteSets, TLC

\* ---------------------------------------------------------------- bounds
\* Number of successful opens of the data directory (each creates one log file).
MaxOpens == 2
\* Number of append attempts (Set and Delete records) over all sessions.
MaxAppends == 2
\* Number of operations in which the environment makes a system call fail.
MaxFaults == 1

\* Goroutines that call one engine at the same time.
MaxThreads == 3
Threads == 1..MaxThreads

\* Engine handles a caller can hold at one time.
handleOrder == <<"e1", "e2">>
Engines == {handleOrder[i] : i \in DOMAIN handleOrder}
\* Wall-clock readings; a later record may get an equal or a smaller one.
Times == {1, 2}
\* "", "a"
Keys == {<<>>, <<97>>}
\* "<DELETED>"
tombstone == <<60, 68, 69, 76, 69, 84, 69, 68, 62>>
\* "", "x", "<DELETED>"
Values == {<<>>, <<120>>, tombstone}

\* A nil pointer, and a pointer to x.
Nil == <<>>
Ref(x) == <<x>>

\* ------------------------------------------------------------ record codec
headerSize == 28
maxFieldSize == 1048576

\* The bit of a that has the value p (a power of two).
bit(a, p) == (a \div p) % 2

\* a XOR b on bytes.
xor8(a, b) ==
      ((bit(a, 1) + bit(b, 1)) % 2)
    + (((bit(a, 2) + bit(b, 2)) % 2) * 2)
    + (((bit(a, 4) + bit(b, 4)) % 2) * 4)
    + (((bit(a, 8) + bit(b, 8)) % 2) * 8)
    + (((bit(a, 16) + bit(b, 16)) % 2) * 16)
    + (((bit(a, 32) + bit(b, 32)) % 2) * 32)
    + (((bit(a, 64) + bit(b, 64)) % 2) * 64)
    + (((bit(a, 128) + bit(b, 128)) % 2) * 128)

\* a XOR b for all bytes a and b, computed once.
xorTable == [a \in 0..255 |-> [b \in 0..255 |-> xor8(a, b)]]

\* A uint32 is kept as its four big-endian bytes.
xor32(w, m) ==
    <<xorTable[w[1]][m[1]], xorTable[w[2]][m[2]], xorTable[w[3]][m[3]], xorTable[w[4]][m[4]]>>

\* One bit of the table construction: w >> 1, then XOR with the reflected
\* IEEE polynomial 0xEDB88320 when the bit shifted out was set.
crcShift(w) ==
    LET s == << w[1] \div 2,
                ((w[1] % 2) * 128) + (w[2] \div 2),
                ((w[2] % 2) * 128) + (w[3] \div 2),
                ((w[3] % 2) * 128) + (w[4] \div 2) >>
    IN  IF w[4] % 2 = 1
        THEN << xor8(w[1] \div 2, 237),
                xor8(((w[1] % 2) * 128) + (w[2] \div 2), 184),
                xor8(((w[2] % 2) * 128) + (w[3] \div 2), 131),
                xor8(((w[3] % 2) * 128) + (w[4] \div 2), 32) >>
        ELSE s

\* crcShift applied n times (each intermediate word is computed once).
RECURSIVE crcShifts(_, _)
crcShifts(w, n) ==
    IF n = 0 THEN w
    ELSE CHOOSE r \in {crcShifts(v, n - 1) : v \in {crcShift(w)}} : TRUE

\* The IEEE table of hash/crc32: entry i is i shifted through eight times.
ieeeTable == [i \in 0..255 |-> crcShifts(<<0, 0, 0, i>>, 8)]

\* crc = table[byte(crc) ^ b] ^ (crc >> 8) for one byte b.
crcByte(w, b) == xor32(ieeeTable[xorTable[w[4]][b]], <<0, w[1], w[2], w[3]>>)

\* The update loop over the bytes p[i], ..., p[j] starting from crc w: the
\* first half of the bytes, then the second half from the crc of the first.
RECURSIVE crcRange(_, _, _, _)
crcRange(w, p, i, j) ==
    IF i > j THEN w
    ELSE IF i = j THEN CHOOSE r \in {crcByte(v, p[i]) : v \in {w}} : TRUE
    ELSE CHOOSE r \in UNION { {crcRange(v, p, m + 1, j) : v \in {crcRange(w, p, i, m)}} :
                                 m \in {(i + j) \div 2} } : TRUE

\* The update loop over the bytes p[i], p[i+1], ... starting from crc w.
crcUpdate(w, p, i) == CHOOSE r \in {crcRange(w, p, i, n) : n \in {Len(p)}} : TRUE

\* crc32.ChecksumIEEE(p): ^crc before and after the update.
ChecksumIEEE(p) ==
    CHOOSE r \in {xor32(v, <<255, 255, 255, 255>>) :
                     v \in {crcUpdate(<<255, 255, 255, 255>>, p, 1)}} : TRUE

\* crc32.ChecksumIEEE of the values the callers of this model store, computed
\* once.
crcOf == [v \in Values |-> ChecksumIEEE(v)]

newDataDirFileLogEntry(key, value, now) ==
    [ crc       |-> IF value \in DOMAIN crcOf THEN crcOf[value] ELSE ChecksumIEEE(value),
      timeStamp |-> now,
      keySize   |-> Len(key),
      valueSize |-> Len(value),
      key       |-> key,
      value     |-> value ]

\* An int64 written with the least significant byte first.
writeInt64LittleEndian(n) ==
    << n % 256, (n \div 256) % 256, (n \div 65536) % 256, (n \div 16777216) % 256,
       0, 0, 0, 0 >>

\* binary.Write(buf, binary.BigEndian, int64) for 0 <= n < 2^31.
writeInt64(n) ==
    << 0, 0, 0, 0,
       (n \div 16777216) % 256, (n \div 65536) % 256, (n \div 256) % 256, n % 256 >>

\* binary.Read(buf, binary.BigEndian, *int64).  Exact for 0 <= n < 2^31; a
\* negative number reads as -1 and a larger one as 2^31 - 1, which keeps its
\* sign and keeps it above maxFieldSize.
readInt64(b) ==
    IF b[1] >= 128 THEN -1
    ELSE IF b[1] = 0 /\ b[2] = 0 /\ b[3] = 0 /\ b[4] = 0 /\ b[5] < 128
         THEN (b[5] * 16777216) + (b[6] * 65536) + (b[7] * 256) + b[8]
         ELSE 2147483647

toBytes(ddfle) ==
    ddfle.crc \o writeInt64(ddfle.timeStamp) \o writeInt64(ddfle.keySize)
        \o writeInt64(ddfle.valueSize) \o ddfle.key \o ddfle.value

\* readEntry that takes what is left of the file as the value when the value
\* is cut short.
readEntryShortValue(f, position) ==
    IF Len(f) - position < headerSize
    THEN [err |-> "EOF", entry |-> Nil, entrySize |-> 0]
    ELSE LET header    == SubSeq(f, position + 1, position + headerSize)
             keySize   == readInt64(SubSeq(header, 13, 20))
             valueSize == readInt64(SubSeq(header, 21, 28))
             keyStart  == position + headerSize
         IN  IF \/ keySize < 0 \/ valueSize < 0
                \/ keySize > maxFieldSize \/ valueSize > maxFieldSize
             THEN [err |-> "invalid entry size", entry |-> Nil, entrySize |-> 0]
             ELSE IF Len(f) < keyStart + keySize
             THEN [err |-> "failed reading key", entry |-> Nil, entrySize |-> 0]
             ELSE [ err   |-> "nil",
                    entry |-> Ref([ crc       |-> SubSeq(header, 1, 4),
                                    timeStamp |-> readInt64(SubSeq(header, 5, 12)),
                                    keySize   |-> keySize,
                                    valueSize |-> valueSize,
                                    key       |-> SubSeq(f, keyStart + 1, keyStart + keySize),
                                    value     |-> SubSeq(f, keyStart + keySize + 1,
                                                    IF Len(f) < keyStart + keySize + valueSize
                                                    THEN Len(f)
                                                    ELSE keyStart + keySize + valueSize) ]),
                    entrySize |-> headerSize + keySize + valueSize ]

\* readEntry whose sanity check rejects a size of 2^20 as well.
readEntryStrictBound(f, position) ==
    IF Len(f) - position < headerSize
    THEN [err |-> "EOF", entry |-> Nil, entrySize |-> 0]
    ELSE LET header    == SubSeq(f, position + 1, position + headerSize)
             keySize   == readInt64(SubSeq(header, 13, 20))
             valueSize == readInt64(SubSeq(header, 21, 28))
             keyStart  == position + headerSize
         IN  IF \/ keySize < 0 \/ valueSize < 0
                \/ keySize >= maxFieldSize \/ valueSize >= maxFieldSize
             THEN [err |-> "invalid entry size", entry |-> Nil, entrySize |-> 0]
             ELSE IF Len(f) < keyStart + keySize
             THEN [err |-> "failed reading key", entry |-> Nil, entrySize |-> 0]
             ELSE IF Len(f) < keyStart + keySize + valueSize
             THEN [err |-> "failed reading value", entry |-> Nil, entrySize |-> 0]
             ELSE [ err   |-> "nil",
                    entry |-> Ref([ crc       |-> SubSeq(header, 1, 4),
                                    timeStamp |-> readInt64(SubSeq(header, 5, 12)),
                                    keySize   |-> keySize,
                                    valueSize |-> valueSize,
                                    key       |-> SubSeq(f, keyStart + 1, keyStart + keySize),
                                    value     |-> SubSeq(f, keyStart + keySize + 1,
                                                         keyStart + keySize + valueSize) ]),
                    entrySize |-> headerSize + keySize + valueSize ]

\* readEntry on a file holding the bytes f.  err is "EOF" (fewer than 28 bytes
\* left), "invalid entry size" (a size field out of range), "failed reading
\* key" or "failed reading value" (the key or the value cut short), or "nil".
readEntry(f, position) ==
    IF Len(f) - position < headerSize
    THEN [err |-> "EOF", entry |-> Nil, entrySize |-> 0]
    ELSE LET header    == SubSeq(f, position + 1, position + headerSize)
             keySize   == readInt64(SubSeq(header, 13, 20))
             valueSize == readInt64(SubSeq(header, 21, 28))
             keyStart  == position + headerSize
         IN  IF \/ keySize < 0 \/ valueSize < 0
                \/ keySize > maxFieldSize \/ valueSize > maxFieldSize
             THEN [err |-> "invalid entry size", entry |-> Nil, entrySize |-> 0]
             ELSE IF Len(f) < keyStart + keySize
             THEN [err |-> "failed reading key", entry |-> Nil, entrySize |-> 0]
             ELSE IF Len(f) < keyStart + keySize + valueSize
             THEN [err |-> "failed reading value", entry |-> Nil, entrySize |-> 0]
             ELSE [ err   |-> "nil",
                    entry |-> Ref([ crc       |-> SubSeq(header, 1, 4),
                                    timeStamp |-> readInt64(SubSeq(header, 5, 12)),
                                    keySize   |-> keySize,
                                    valueSize |-> valueSize,
                                    key       |-> SubSeq(f, keyStart + 1, keyStart + keySize),
                                    value     |-> SubSeq(f, keyStart + keySize + 1,
                                                         keyStart + keySize + valueSize) ]),
                    entrySize |-> headerSize + keySize + valueSize ]

\* ---------------------------------------------------------------- log file
\* openLogFile: O_CREATE|O_APPEND on the file's current bytes f (<<>> when new).
openLogFile(f, fileId) == [writerPosition |-> Len(f), fileId |-> fileId]

\* setLogEntry with the write error dropped: a short write is reported as a
\* success.
setLogEntryIgnoresError(l, f, ddfle, bytesWritten, seekOk) ==
    [ err |-> "nil",
      valueStartOffset |-> l.writerPosition + 28 + ddfle.keySize,
      entryEndOffset   |-> l.writerPosition + bytesWritten,
      log  |-> [l EXCEPT !.writerPosition = l.writerPosition + bytesWritten],
      file |-> f \o SubSeq(toBytes(ddfle), 1, bytesWritten) ]

\* Log.setLogEntry on the log l whose file holds f.  bytesWritten is the number
\* of bytes the write put in the file (all of them: success); seekOk is the
\* outcome of Seek(0, io.SeekEnd) after a failed write.
setLogEntry(l, f, ddfle, bytesWritten, seekOk) ==
    LET bytesToWrite == toBytes(ddfle)
        written      == f \o SubSeq(bytesToWrite, 1, bytesWritten)
    IN  IF bytesWritten < Len(bytesToWrite)
        THEN [ err |-> "io", valueStartOffset |-> -1, entryEndOffset |-> -1,
               log  |-> IF seekOk THEN [l EXCEPT !.writerPosition = Len(written)] ELSE l,
               file |-> written ]
        ELSE [ err |-> "nil",
               valueStartOffset |-> l.writerPosition + 28 + ddfle.keySize,
               entryEndOffset   |-> l.writerPosition + bytesWritten,
               log  |-> [l EXCEPT !.writerPosition = l.writerPosition + bytesWritten],
               file |-> written ]

\* getLogValue on the directory's files fs.
getLogValue(fs, fileId, valueOffset, valueSize) ==
    IF fileId \notin DOMAIN fs THEN [value |-> <<>>, err |-> "io"]
    ELSE IF valueSize > 0 /\ valueOffset + valueSize > Len(fs[fileId])
    THEN [value |-> <<>>, err |-> "io"]
    ELSE [value |-> SubSeq(fs[fileId], valueOffset + 1, valueOffset + valueSize),
          err |-> "nil"]

\* ------------------------------------------------------------ key directory
\* delete(m, k) that removes nothing.
mapDeleteNothing(m, k) == m

mapPut(m, k, v) == [x \in (DOMAIN m) \cup {k} |-> IF x = k THEN v ELSE m[x]]
mapDelete(m, k) == [x \in (DOMAIN m) \ {k} |-> m[x]]

maxOf(S) == IF S = {} THEN 0 ELSE CHOOSE x \in S : \A y \in S : y <= x
minOf(S) == CHOOSE x \in S : \A y \in S : x <= y

\* The body of the inner loop of getKeyDir in which a record with the
\* timestamp of the directory entry replaces the entry too.
scanEntryNotOlder(keyDir, fileId, position, entry) ==
    IF entry.value = tombstone
    THEN mapDelete(keyDir, entry.key)
    ELSE IF \/ entry.key \notin DOMAIN keyDir
            \/ entry.timeStamp >= keyDir[entry.key].timeStamp
         THEN mapPut(keyDir, entry.key,
                     [ fileId        |-> fileId,
                       valueSize     |-> entry.valueSize,
                       valuePosition |-> position + 28 + entry.keySize,
                       timeStamp     |-> entry.timeStamp ])
         ELSE keyDir

\* The body of the inner loop of getKeyDir: the key directory after the record
\* entry, read at position of log file fileId.
scanEntry(keyDir, fileId, position, entry) ==
    IF entry.value = tombstone
    THEN mapDelete(keyDir, entry.key)
    ELSE LET valuePos == position + 28 + entry.keySize
         IN  IF \/ entry.key \notin DOMAIN keyDir
                \/ entry.timeStamp > keyDir[entry.key].timeStamp
             THEN mapPut(keyDir, entry.key,
                         [ fileId        |-> fileId,
                           valueSize     |-> entry.valueSize,
                           valuePosition |-> valuePos,
                           timeStamp     |-> entry.timeStamp ])
             ELSE keyDir

\* The inner loop of getKeyDir: the records of one file, from position on.
RECURSIVE scanFile(_, _, _, _)
scanFile(f, fileId, position, keyDir) ==
    LET r == readEntry(f, position)
    IN  IF r.err # "nil" THEN keyDir
        ELSE scanFile(f, fileId, position + r.entrySize,
                      scanEntry(keyDir, fileId, position, r.entry[1]))

\* The outer loop of getKeyDir: os.ReadDir lists the files sorted by name, which
\* for the 16-digit zero-padded names is the order of their ids.
RECURSIVE scanFiles(_, _, _)
scanFiles(fs, ids, keyDir) ==
    IF ids = {} THEN keyDir
    ELSE LET fileId == minOf(ids)
         IN  scanFiles(fs, ids \ {fileId}, scanFile(fs[fileId], fileId, 0, keyDir))

\* getKeyDir that counts the ids of the files it could open only.
getKeyDirReadableMax(fs, unreadable) ==
    [ keyDir    |-> scanFiles(fs, (DOMAIN fs) \ unreadable, <<>>),
      maxFileId |-> maxOf((DOMAIN fs) \ unreadable) ]

\* getKeyDir over the directory fs when os.Open fails on the files of
\* unreadable: they are skipped after their id has been counted.
getKeyDir(fs, unreadable) ==
    [ keyDir    |-> scanFiles(fs, (DOMAIN fs) \ unreadable, <<>>),
      maxFileId |-> maxOf(DOMAIN fs) ]

\* ------------------------------------------------------------------- state
VARIABLES
    files,      \* the data directory: log file id -> the bytes of the file
    flock,      \* the engine handle holding the lock on bitcask.lock, or Nil
    engine,     \* handle -> Nil, or a pointer to a BitCaskStorageEngine
    last,       \* the last call and what it returned (for Close, ret is which
                \*   of its two steps failed; for a failed open, whether the
                \*   unlock on the error path failed; for a successful open,
                \*   the log files the scan could not open)
    hist,       \* key -> the last successful Set/Delete on it by an open engine,
                \*        with the id of that engine's active log (its session)
    snap,       \* what the closing engine observed just before the last Close
    tail,       \* log file id -> the length up to which the file is whole records,
                \*   when at most one failed append follows them and nothing follows
                \*   it; -1 once something was appended after a failed append
    nAppends,   \* append attempts so far
    mu,         \* bcse.mu of the open engine: the goroutine holding the write
                \*   side (or Nil) and the goroutines holding the read side
    thr,        \* goroutine -> the call it makes on the open engine, how far
                \*   it has got, and its local variables
    codec,      \* the record codec alone: a buffer, the offset and the fields of the
                \*   record encoded last, the records encoded, and what readEntry
                \*   returned at that offset
    inmem,      \* the in-memory engine: its hashMap, and its last call and what
                \*   it returned
    loop,       \* the interactive loop of main.go: the lines of the input with the
                \*   command each of them is, the input not yet read, the
                \*   KVStore, and what runLoop returned
    scan,       \* a NewBitCaskStorageEngine in progress, statement by statement:
                \*   where it is, the directory entries left, the log file being
                \*   scanned and the position in it, and the key directory and
                \*   the highest file id so far
    fds,        \* the open descriptors on log files: the engine handles with the
                \*   file of their active log, the files the startup scan has
                \*   open, and the goroutines with a file open in getLogValue
    sized,      \* one Set and the scan of the record it stored, by sizes
    nFaults     \* operations with a failed system call so far

vars == <<files, flock, engine, last, hist, snap, tail, nAppends, mu, thr, codec, inmem, loop, scan, fds, sized, nFaults>>

\* The variables of the engine operations.
engineVars == <<files, flock, engine, last, hist, snap, tail, nAppends, fds, nFaults>>

\* The variables of the specifications of single functions, which the engine
\* operations do not touch.
aside == <<codec, inmem, loop, scan, sized>>

noCall == [op |-> "none", e |-> "", key |-> <<>>, value |-> <<>>, err |-> "nil", ret |-> <<>>]
call(op, e, key, value, err, ret) ==
    [op |-> op, e |-> e, key |-> key, value |-> value, err |-> err, ret |-> ret]

noHist == [k \in Keys |-> [op |-> "none", value |-> <<>>, fileId |-> 0]]

exists(e) == engine[e] # Nil
isOpen(e) == exists(e) /\ engine[e][1].activeLog # Nil

\* Get that returns whatever bytes the directory entry points at.
getResultAnyBytes(bcse, fs, key) ==
    IF key \notin DOMAIN bcse.keyDir THEN [value |-> <<>>, err |-> "notfound"]
    ELSE LET keyData == bcse.keyDir[key]
             r == getLogValue(fs, keyData.fileId, keyData.valuePosition, keyData.valueSize)
         IN  IF r.err # "nil" THEN [value |-> <<>>, err |-> "io"]
             ELSE [value |-> r.value, err |-> "nil"]

\* BitCaskStorageEngine.Get as a function of the state it reads.
getResult(bcse, fs, key) ==
    IF key \notin DOMAIN bcse.keyDir THEN [value |-> <<>>, err |-> "notfound"]
    ELSE LET keyData == bcse.keyDir[key]
             r == getLogValue(fs, keyData.fileId, keyData.valuePosition, keyData.valueSize)
         IN  IF r.err # "nil" THEN [value |-> <<>>, err |-> "io"]
             ELSE IF r.value = tombstone THEN [value |-> <<>>, err |-> "notfound"]
             ELSE [value |-> r.value, err |-> "nil"]

\* What Get returns for every key of Keys on engine handle e.
view(e) == [k \in Keys |-> getResult(engine[e][1], files, k)]

\* sync.RWMutex with no holder.
unlocked == [writer |-> Nil, readers |-> {}]

\* A goroutine that makes no call.
idle == [ op |-> "none", key |-> <<>>, value |-> <<>>, pc |-> "done",
          rec |-> Nil, bytesWritten |-> 0, err |-> "nil", ret |-> <<>> ]

\* An empty InMemStorageEngine on which no call was made.
noInMem == [hashMap |-> <<>>, last |-> noCall]

\* No input, and a KVStore on which runLoop has not run.
noLoop == [script |-> <<>>, input |-> <<>>, hashMap |-> <<>>, ret |-> "running"]

\* No NewBitCaskStorageEngine in progress.
noScan == [ pc |-> "none", entries |-> {}, unreadable |-> {}, fileId |-> 0,
            position |-> 0, keyDir |-> <<>>, maxFileId |-> 0 ]

\* No descriptor open on a log file.
noFds == [log |-> {}, scan |-> {}, get |-> {}]

\* No sized record set or scanned.
noSized == [ pc |-> "none", key |-> <<>>, valueSize |-> 0, now |-> 0,
             err |-> "nil", stored |-> Nil, decoded |-> "nil", keyDir |-> <<>> ]

\* No buffer, nothing encoded and nothing decoded.
noCodec == [buf |-> <<>>, at |-> 0, n |-> 0, entry |-> Nil, dec |-> Nil]

Init ==
    /\ files = <<>>
    /\ flock = Nil
    /\ engine = [e \in Engines |-> Nil]
    /\ last = noCall
    /\ hist = noHist
    /\ snap = Nil
    /\ tail = <<>>
    /\ mu = unlocked
    /\ thr = [t \in Threads |-> idle]
    /\ nAppends = 0
    /\ nFaults = 0
    /\ codec = noCodec
    /\ inmem = noInMem
    /\ loop = noLoop
    /\ scan = noScan
    /\ fds = noFds
    /\ sized = noSized

\* ------------------------------------------------------------------ engine
\* The handle a caller stores the next engine in: handles are interchangeable,
\* so it is the first one never used and, when every handle has been used, the
\* first one whose engine is closed.
freeHandles ==
    IF \E i \in DOMAIN handleOrder : ~exists(handleOrder[i])
    THEN {handleOrder[i] : i \in {j \in DOMAIN handleOrder :
                /\ ~exists(handleOrder[j])
                /\ \A k \in 1..(j - 1) : exists(handleOrder[k])}}
    ELSE {handleOrder[i] : i \in {j \in DOMAIN handleOrder :
                /\ ~isOpen(handleOrder[j])
                /\ \A k \in 1..(j - 1) : isOpen(handleOrder[k])}}

\* TryLock that does not see the holder.
tryLockAlways(holder) == TRUE

\* fLock.TryLock() on bitcask.lock, whose holder is holder: flock(2) with
\* LOCK_EX|LOCK_NB on a descriptor of its own, so it succeeds iff nobody holds it.
tryLock(holder) == holder = Nil

\* The key directory after a Set that appended ddfle to log l at valuePosition.
keyDirEntry(l, ddfle, valuePosition) ==
    [ fileId        |-> l.fileId,
      valueSize     |-> ddfle.valueSize,
      valuePosition |-> valuePosition,
      timeStamp     |-> ddfle.timeStamp ]

\* The directory after os.OpenFile with O_CREATE on log file fileId: a file
\* that exists keeps its bytes.
created(fs, fileId) == IF fileId \in DOMAIN fs THEN fs ELSE mapPut(fs, fileId, <<>>)

\* How the steps of NewBitCaskStorageEngine after TryLock end: "nil", or the
\* step the environment makes fail: os.ReadDir in getKeyDir, os.OpenFile in
\* openLogFile, or file.Stat in openLogFile (the file has been created then).
openOutcomes ==
    {"nil"} \cup IF nFaults < MaxFaults THEN {"readdir", "openfile", "stat"} ELSE {}

\* The log files on which os.Open fails during the scan.
unreadableOutcomes(fs) ==
    IF nFaults < MaxFaults THEN SUBSET (DOMAIN fs) ELSE {{}}

\* The outcomes of flock(2) with LOCK_UN: TRUE when it fails.
unlockFailures ==
    {FALSE} \cup IF nFaults < MaxFaults THEN {TRUE} ELSE {}

\* An error path that returns without fLock.Unlock().
UnlockSkipped(holder, fails) == holder

\* The holder of the lock after fLock.Unlock() by holder: nobody, or still
\* holder when the system call fails (the descriptor stays open).
Unlock(holder, fails) == IF fails THEN holder ELSE Nil

\* A directory set-up that already creates the next log file.
mkdirAllCreatesLog(fs) == created(fs, maxOf(DOMAIN fs) + 1)

\* os.MkdirAll(dataDir, 0755) on the directory, which exists: the log files
\* in it stay as they are.
mkdirAll(fs) == fs

\* NewBitCaskStorageEngine(dataDir), the result kept in handle e.
NewBitCaskStorageEngine(e) ==
    /\ e \in freeHandles
    /\ maxOf(DOMAIN files) < MaxOpens
    /\ IF ~tryLock(flock)
       THEN /\ last' = call("New", e, <<>>, <<>>, "locked", <<>>)
            /\ files' = mkdirAll(files)
            /\ UNCHANGED <<flock, engine, hist, snap, tail, nAppends, fds, nFaults>>
       ELSE \E out \in openOutcomes :
            IF out # "nil"
            THEN \* the error paths: fLock.Unlock(), its error dropped, and no engine
                 \E unlockFails \in unlockFailures :
                    /\ flock' = Unlock(Ref(e), unlockFails)
                    /\ files' = IF out = "stat"
                                THEN created(files, maxOf(DOMAIN files) + 1)
                                ELSE files
                    /\ tail' = IF out = "stat"
                               THEN mapPut(tail, maxOf(DOMAIN files) + 1, 0)
                               ELSE tail
                    /\ last' = call("New", e, <<>>, <<>>, out, <<unlockFails>>)
                    /\ nFaults' = nFaults + 1
                    /\ UNCHANGED <<engine, hist, snap, nAppends, fds>>
            ELSE \E unreadable \in unreadableOutcomes(files) :
                 \E dir \in {getKeyDir(files, unreadable)} :
                 \E nextFileId \in {dir.maxFileId + 1} :
                 \E activeLog \in {openLogFile(created(files, nextFileId)[nextFileId],
                                                nextFileId)} :
                    /\ flock' = Ref(e)
                    /\ files' = created(files, nextFileId)
                    /\ tail' = IF nextFileId \in DOMAIN tail THEN tail
                               ELSE mapPut(tail, nextFileId, 0)
                    /\ engine' = [engine EXCEPT ![e] =
                                     Ref([ keyDir    |-> dir.keyDir,
                                           activeLog |-> Ref(activeLog),
                                           fLock     |-> TRUE ])]
                    /\ last' = call("New", e, <<>>, <<>>, "nil", <<unreadable>>)
                    /\ fds' = [fds EXCEPT !.log = @ \cup {<<e, nextFileId>>}]
                    /\ nFaults' = IF unreadable # {} THEN nFaults + 1 ELSE nFaults
                    /\ UNCHANGED <<hist, snap, nAppends>>
    /\ UNCHANGED <<mu, thr>>
    /\ UNCHANGED aside

\* The tail mark t of a file of length len after an append of an n-byte
\* record that left the file newLen bytes long.
tailAfter(t, len, newLen, n) ==
    IF t # len THEN (IF newLen = len THEN t ELSE -1)
    ELSE IF newLen = len + n THEN newLen ELSE t

\* The outcomes of one file.Write of n bytes: n (success) or, while the
\* environment may still fail an append, a prefix cut at one of the places
\* where the record changes from one part to the next.
writeOutcomes(n) ==
    {n} \cup IF nFaults < MaxFaults
             THEN {m \in {0, 1, headerSize, n - 1} : m < n}
             ELSE {}

\* The outcomes of Seek(0, io.SeekEnd), which runs only after a failed write.
seekOutcomes(bytesWritten, n) == IF bytesWritten < n THEN BOOLEAN ELSE {TRUE}

\* bcse.Set(key, value) on handle e.
Set(e, key, value) ==
    /\ exists(e)
    /\ \E bcse \in {engine[e][1]} :
       IF bcse.activeLog = Nil
       THEN \* nil pointer dereference in setLogEntry; the deferred Unlock runs
            /\ last' = call("Set", e, key, <<>>, "panic", <<>>)
            /\ UNCHANGED <<files, flock, engine, hist, snap, tail, nAppends, nFaults>>
       ELSE /\ nAppends < MaxAppends
            /\ \E now \in Times :
               \E ddfle \in {newDataDirFileLogEntry(key, value, now)}, l \in {bcse.activeLog[1]} :
               \E n \in {headerSize + ddfle.keySize + ddfle.valueSize} :
               \E bytesWritten \in writeOutcomes(n) :
               \E seekOk \in seekOutcomes(bytesWritten, n) :
               \E w \in {setLogEntry(l, files[l.fileId], ddfle, bytesWritten, seekOk)} :
                   /\ files' = [files EXCEPT ![l.fileId] = w.file]
                   /\ tail' = [tail EXCEPT ![l.fileId] =
                                  tailAfter(tail[l.fileId], Len(files[l.fileId]), Len(w.file), n)]
                   /\ nAppends' = nAppends + 1
                   /\ nFaults' = IF bytesWritten < n THEN nFaults + 1 ELSE nFaults
                   /\ IF w.err # "nil"
                      THEN /\ engine' = [engine EXCEPT ![e] =
                                            Ref([bcse EXCEPT !.activeLog = Ref(w.log)])]
                           /\ last' = call("Set", e, key, <<>>, "io", <<>>)
                           /\ UNCHANGED hist
                      ELSE /\ engine' = [engine EXCEPT ![e] =
                                Ref([ bcse EXCEPT
                                      !.activeLog = Ref(w.log),
                                      !.keyDir = mapPut(bcse.keyDir, key,
                                          keyDirEntry(l, ddfle, w.valueStartOffset)) ])]
                           /\ last' = call("Set", e, key, value, "nil", <<>>)
                           /\ hist' = [hist EXCEPT ![key] =
                                         [op |-> "set", value |-> value, fileId |-> l.fileId]]
                   /\ UNCHANGED <<flock, snap>>
    /\ UNCHANGED <<mu, thr, fds>>
    /\ UNCHANGED aside

\* A Get that drops the directory entry of a key it reports as not found.
GetEvicts(e, key) ==
    /\ exists(e)
    /\ \E r \in {getResult(engine[e][1], files, key)} :
           /\ last' = call("Get", e, key, <<>>, r.err, r.value)
           /\ engine' = IF r.err = "notfound"
                        THEN [engine EXCEPT ![e] =
                                 Ref([engine[e][1] EXCEPT !.keyDir = mapDelete(@, key)])]
                        ELSE engine
    /\ UNCHANGED <<files, flock, hist, snap, tail, nAppends, nFaults>>
    /\ UNCHANGED <<mu, thr, fds>>
    /\ UNCHANGED aside

\* bcse.Get(key) on handle e.
Get(e, key) ==
    /\ exists(e)
    /\ \E r \in {getResult(engine[e][1], files, key)} :
           last' = call("Get", e, key, <<>>, r.err, r.value)
    /\ UNCHANGED <<files, flock, engine, hist, snap, tail, nAppends, nFaults>>
    /\ UNCHANGED <<mu, thr, fds>>
    /\ UNCHANGED aside

\* A lookup that finds every key.
hasKeyAlways(keyDir, key) == TRUE

\* _, ok := bcse.keyDir[key]
hasKey(keyDir, key) == key \in DOMAIN keyDir

\* bcse.Delete(key) on handle e.
Delete(e, key) ==
    /\ exists(e)
    /\ \E bcse \in {engine[e][1]} :
       IF ~hasKey(bcse.keyDir, key)
       THEN /\ last' = call("Delete", e, key, <<>>, "nil", <<>>)
            /\ IF bcse.activeLog # Nil
               THEN hist' = [hist EXCEPT ![key] =
                                [op |-> "del", value |-> <<>>,
                                 fileId |-> bcse.activeLog[1].fileId]]
               ELSE UNCHANGED hist
            /\ UNCHANGED <<files, flock, engine, snap, tail, nAppends, nFaults>>
       ELSE IF bcse.activeLog = Nil
       THEN \* nil pointer dereference in setLogEntry; the deferred Unlock runs
            /\ last' = call("Delete", e, key, <<>>, "panic", <<>>)
            /\ UNCHANGED <<files, flock, engine, hist, snap, tail, nAppends, nFaults>>
       ELSE /\ nAppends < MaxAppends
            /\ \E now \in Times :
               \E tombstoneEntry \in {newDataDirFileLogEntry(key, tombstone, now)},
                  l \in {bcse.activeLog[1]} :
               \E n \in {headerSize + tombstoneEntry.keySize + tombstoneEntry.valueSize} :
               \E bytesWritten \in writeOutcomes(n) :
               \E seekOk \in seekOutcomes(bytesWritten, n) :
               \E w \in {setLogEntry(l, files[l.fileId], tombstoneEntry, bytesWritten, seekOk)} :
                   /\ files' = [files EXCEPT ![l.fileId] = w.file]
                   /\ tail' = [tail EXCEPT ![l.fileId] =
                                  tailAfter(tail[l.fileId], Len(files[l.fileId]), Len(w.file), n)]
                   /\ nAppends' = nAppends + 1
                   /\ nFaults' = IF bytesWritten < n THEN nFaults + 1 ELSE nFaults
                   /\ IF w.err # "nil"
                      THEN /\ engine' = [engine EXCEPT ![e] =
                                            Ref([bcse EXCEPT !.activeLog = Ref(w.log)])]
                           /\ last' = call("Delete", e, key, <<>>, "io", <<>>)
                           /\ UNCHANGED hist
                      ELSE /\ engine' = [engine EXCEPT ![e] =
                                Ref([ bcse EXCEPT
                                      !.activeLog = Ref(w.log),
                                      !.keyDir = mapDelete(bcse.keyDir, key) ])]
                           /\ last' = call("Delete", e, key, <<>>, "nil", <<>>)
                           /\ hist' = [hist EXCEPT ![key] =
                                         [op |-> "del", value |-> <<>>, fileId |-> l.fileId]]
                   /\ UNCHANGED <<flock, snap>>
    /\ UNCHANGED <<mu, thr, fds>>
    /\ UNCHANGED aside

\* file.Close() that leaves the descriptor open.
closeFileLeaks(open, h) == open

\* The open descriptors after file.Close() on descriptor h of them: close(2)
\* releases the descriptor also when it returns an error.
closeFile(open, h) == open \ {h}

\* The outcomes of activeLog.Close(): TRUE when file.Close returns an error.
logCloseOutcomes(activeLog) ==
    {FALSE} \cup IF activeLog # Nil /\ nFaults < MaxFaults THEN {TRUE} ELSE {}

\* Close that returns the first error only.
closeErrorNoChain(logCloseFailed, unlockFailed) ==
    IF logCloseFailed THEN "logclose"
    ELSE IF unlockFailed THEN "unlock" ELSE "nil"

\* The error Close returns: the first error, the second chained to it.
closeError(logCloseFailed, unlockFailed) ==
    IF logCloseFailed
    THEN IF unlockFailed THEN "logclose; additionally: unlock" ELSE "logclose"
    ELSE IF unlockFailed THEN "unlock" ELSE "nil"

\* A Close that releases the lock whether or not the engine still has it.
hasLockAlways(bcse) == TRUE

\* bcse.fLock != nil
hasLock(bcse) == bcse.fLock

\* bcse.Close() on handle e.
Close(e) ==
    /\ exists(e)
    /\ \E bcse \in {engine[e][1]} :
       \E logCloseFailed \in logCloseOutcomes(bcse.activeLog) :
       \E unlockFailed \in (IF hasLock(bcse) THEN unlockFailures ELSE {FALSE}) :
           /\ engine' = [engine EXCEPT ![e] =
                            Ref([bcse EXCEPT !.activeLog = Nil, !.fLock = FALSE])]
           /\ flock' = IF hasLock(bcse) THEN Unlock(flock, unlockFailed) ELSE flock
           /\ snap' = IF bcse.activeLog # Nil
                      THEN Ref([live |-> DOMAIN bcse.keyDir, get |-> view(e)])
                      ELSE snap
           /\ last' = call("Close", e, <<>>, <<>>,
                           closeError(logCloseFailed, unlockFailed),
                           <<logCloseFailed, unlockFailed>>)
           /\ fds' = IF bcse.activeLog # Nil
                     THEN [fds EXCEPT !.log = closeFile(@, <<e, bcse.activeLog[1].fileId>>)]
                     ELSE fds
           /\ nFaults' = IF logCloseFailed \/ unlockFailed THEN nFaults + 1 ELSE nFaults
    /\ UNCHANGED <<files, hist, tail, nAppends>>
    /\ UNCHANGED <<mu, thr>>
    /\ UNCHANGED aside

Next ==
    \/ \E e \in Engines : NewBitCaskStorageEngine(e)
    \/ \E e \in Engines, key \in Keys, value \in Values : Set(e, key, value)
    \/ \E e \in Engines, key \in Keys : Get(e, key)
    \/ \E e \in Engines, key \in Keys : Delete(e, key)
    \/ \E e \in Engines : Close(e)

Spec == Init /\ [][Next]_vars

\* --------------------------------------------- goroutines on one engine
\* Several goroutines call Set and Get on one open engine.  A call is a
\* sequence of steps: taking bcse.mu, the system calls on the log file, the
\* updates of the engine's memory, and the deferred release of bcse.mu.

\* The handle of the engine the goroutines share.
shared == handleOrder[1]

\* The calls a goroutine can make.
Programs ==
    {[idle EXCEPT !.op = "Set", !.key = k, !.value = v, !.pc = "start"] : k \in Keys, v \in Values}
        \cup {[idle EXCEPT !.op = "Get", !.key = k, !.pc = "start"] : k \in Keys}

\* An engine just opened on an empty directory, and a call for every goroutine.
InitConc ==
    /\ files = <<<<>>>>
    /\ flock = Ref(shared)
    /\ engine = [e \in Engines |->
                    IF e = shared
                    THEN Ref([ keyDir    |-> <<>>,
                               activeLog |-> Ref(openLogFile(<<>>, 1)),
                               fLock     |-> TRUE ])
                    ELSE Nil]
    /\ last = call("New", shared, <<>>, <<>>, "nil", <<{}>>)
    /\ hist = noHist
    /\ snap = Nil
    /\ tail = <<0>>
    /\ mu = unlocked
    /\ thr \in [Threads -> Programs]
    /\ nAppends = 0
    /\ nFaults = 0
    /\ codec = noCodec
    /\ inmem = noInMem
    /\ loop = noLoop
    /\ scan = noScan
    /\ fds = [noFds EXCEPT !.log = {<<shared, 1>>}]
    /\ sized = noSized

\* Lock that does not wait for the readers.
canLockDespiteReaders(m) == m.writer = Nil

\* bcse.mu.Lock() returns: nobody holds either side.
canLock(m) == m.writer = Nil /\ m.readers = {}

\* bcse.mu.RLock() returns: nobody holds the write side.
canRLock(m) == m.writer = Nil

\* A deferred Unlock that runs on the successful return only.
unlockUnlessError(m, t, err) ==
    IF err = "nil" THEN [m EXCEPT !.writer = IF m.writer = Ref(t) THEN Nil ELSE m.writer]
    ELSE m

\* The deferred bcse.mu.Unlock() of goroutine t, whose call returns err: it
\* runs whatever the call returns.
deferredUnlock(m, t, err) ==
    [m EXCEPT !.writer = IF m.writer = Ref(t) THEN Nil ELSE m.writer]

\* Set: bcse.mu.Lock()
SetLock(t) ==
    /\ thr[t].op = "Set" /\ thr[t].pc = "start"
    /\ canLock(mu)
    /\ mu' = [mu EXCEPT !.writer = Ref(t)]
    /\ thr' = [thr EXCEPT ![t].pc = "locked"]
    /\ UNCHANGED <<files, flock, engine, last, hist, snap, tail, nAppends, nFaults, fds>>
    /\ UNCHANGED aside

\* Set: newDataDirFileLogEntry, toBytes and l.file.Write in setLogEntry
SetWrite(t) ==
    /\ thr[t].op = "Set" /\ thr[t].pc = "locked"
    /\ IF engine[shared][1].activeLog = Nil
       THEN \* nil pointer dereference in setLogEntry; the deferred Unlock runs
            /\ thr' = [thr EXCEPT ![t].pc = "stored", ![t].err = "panic"]
            /\ UNCHANGED <<files, tail, nAppends, nFaults>>
       ELSE
       \E now \in Times :
       \E ddfle \in {newDataDirFileLogEntry(thr[t].key, thr[t].value, now)},
          l \in {engine[shared][1].activeLog[1]} :
       \E n \in {headerSize + ddfle.keySize + ddfle.valueSize} :
       \E bytesWritten \in writeOutcomes(n) :
       \E written \in {files[l.fileId] \o SubSeq(toBytes(ddfle), 1, bytesWritten)} :
           /\ files' = [files EXCEPT ![l.fileId] = written]
           /\ tail' = [tail EXCEPT ![l.fileId] =
                          tailAfter(tail[l.fileId], Len(files[l.fileId]), Len(written), n)]
           /\ nAppends' = nAppends + 1
           /\ nFaults' = IF bytesWritten < n THEN nFaults + 1 ELSE nFaults
           /\ thr' = [thr EXCEPT ![t].pc = "written", ![t].rec = Ref(ddfle),
                                 ![t].bytesWritten = bytesWritten]
    /\ UNCHANGED <<flock, engine, last, hist, snap, mu, fds>>
    /\ UNCHANGED aside

\* Set: the rest of setLogEntry (the Seek after a failed write, the offsets,
\* writerPosition) and the update of bcse.keyDir
SetStore(t) ==
    /\ thr[t].op = "Set" /\ thr[t].pc = "written"
    /\ \E bcse \in {engine[shared][1]} :
       \E l \in {bcse.activeLog[1]}, ddfle \in {thr[t].rec[1]} :
       \E n \in {headerSize + ddfle.keySize + ddfle.valueSize} :
       \E seekOk \in seekOutcomes(thr[t].bytesWritten, n) :
       \E before \in {SubSeq(files[l.fileId], 1, Len(files[l.fileId]) - thr[t].bytesWritten)} :
       \E w \in {setLogEntry(l, before, ddfle, thr[t].bytesWritten, seekOk)} :
           /\ engine' = [engine EXCEPT ![shared] =
                 IF w.err # "nil"
                 THEN Ref([bcse EXCEPT !.activeLog = Ref(w.log)])
                 ELSE Ref([ bcse EXCEPT
                            !.activeLog = Ref(w.log),
                            !.keyDir = mapPut(bcse.keyDir, thr[t].key,
                                keyDirEntry(l, ddfle, w.valueStartOffset)) ])]
           /\ thr' = [thr EXCEPT ![t].pc = "stored", ![t].err = w.err]
    /\ UNCHANGED <<files, flock, last, hist, snap, tail, nAppends, mu, nFaults, fds>>
    /\ UNCHANGED aside

\* Set: the deferred bcse.mu.Unlock() and the return
SetUnlock(t) ==
    /\ thr[t].op = "Set" /\ thr[t].pc = "stored"
    /\ mu' = deferredUnlock(mu, t, thr[t].err)
    /\ thr' = [thr EXCEPT ![t].pc = "done"]
    /\ last' = call("Set", shared, thr[t].key,
                    IF thr[t].err = "nil" THEN thr[t].value ELSE <<>>, thr[t].err, <<>>)
    /\ hist' = IF thr[t].err = "nil"
               THEN [hist EXCEPT ![thr[t].key] =
                        [op |-> "set", value |-> thr[t].value, fileId |-> 1]]
               ELSE hist
    /\ UNCHANGED <<files, flock, engine, snap, tail, nAppends, nFaults, fds>>
    /\ UNCHANGED aside

\* Get: bcse.mu.RLock()
GetRLock(t) ==
    /\ thr[t].op = "Get" /\ thr[t].pc = "start"
    /\ exists(shared)
    /\ canRLock(mu)
    /\ mu' = [mu EXCEPT !.readers = @ \cup {t}]
    /\ thr' = [thr EXCEPT ![t].pc = "rlocked"]
    /\ UNCHANGED <<files, flock, engine, last, hist, snap, tail, nAppends, nFaults, fds>>
    /\ UNCHANGED aside

\* Get: the lookup in bcse.keyDir and getLogValue
GetRead(t) ==
    /\ thr[t].op = "Get" /\ thr[t].pc = "rlocked"
    /\ \E r \in {getResult(engine[shared][1], files, thr[t].key)} :
           thr' = [thr EXCEPT ![t].pc = "read", ![t].err = r.err, ![t].ret = r.value]
    /\ UNCHANGED <<files, flock, engine, last, hist, snap, tail, nAppends, mu, nFaults, fds>>
    /\ UNCHANGED aside

\* Get: the deferred bcse.mu.RUnlock() and the return
GetRUnlock(t) ==
    /\ thr[t].op = "Get" /\ thr[t].pc = "read"
    /\ mu' = [mu EXCEPT !.readers = @ \ {t}]
    /\ thr' = [thr EXCEPT ![t].pc = "done"]
    /\ last' = call("Get", shared, thr[t].key, <<>>, thr[t].err, thr[t].ret)
    /\ UNCHANGED <<files, flock, engine, hist, snap, tail, nAppends, nFaults, fds>>
    /\ UNCHANGED aside

NextConc ==
    \/ \E t \in Threads : SetLock(t)
    \/ \E t \in Threads : SetWrite(t)
    \/ \E t \in Threads : SetStore(t)
    \/ \E t \in Threads : SetUnlock(t)
    \/ \E t \in Threads : GetRLock(t)
    \/ \E t \in Threads : GetRead(t)
    \/ \E t \in Threads : GetRUnlock(t)

SpecConc == InitConc /\ [][NextConc]_vars

\* ------------------------------------------------- the record codec alone
\* toBytes and readEntry on a buffer: records are encoded one after the other
\* and the one encoded last is decoded, or a buffer that no encoder wrote is
\* decoded at offset 0.

\* Records encoded into one buffer.
MaxRecords == 2

\* The 8 bytes of a size field: 0, 1, 2^20, 2^20 + 1, 2^32, 2^63 - 1, -1, -2^63.
sizeFields ==
    { <<0, 0, 0, 0, 0, 0, 0, 0>>, <<0, 0, 0, 0, 0, 0, 0, 1>>,
      <<0, 0, 0, 0, 0, 16, 0, 0>>, <<0, 0, 0, 0, 0, 16, 0, 1>>,
      <<0, 0, 0, 1, 0, 0, 0, 0>>, <<127, 255, 255, 255, 255, 255, 255, 255>>,
      <<255, 255, 255, 255, 255, 255, 255, 255>>, <<128, 0, 0, 0, 0, 0, 0, 0>> }

\* n bytes of payload.
zeros(n) == [i \in 1..n |-> 0]

\* How many bytes follow a header with the size fields ks and vs: none, the
\* key only, or the key and the value; one byte when a size is out of range.
payloadLens(ks, vs) ==
    LET k == readInt64(ks)
        v == readInt64(vs)
    IN  IF k \in 0..maxFieldSize /\ v \in 0..maxFieldSize
        THEN {0, k, k + v}
        ELSE {0, 1}

\* The buffers that no encoder wrote: a header with any size fields, and payload.
rawBuffers ==
    UNION { { <<0, 0, 0, 0>> \o writeInt64(1) \o ks \o vs \o zeros(n) : n \in payloadLens(ks, vs) } :
            ks \in sizeFields, vs \in sizeFields }

InitCodec ==
    /\ files = <<>>
    /\ flock = Nil
    /\ engine = [e \in Engines |-> Nil]
    /\ last = noCall
    /\ hist = noHist
    /\ snap = Nil
    /\ tail = <<>>
    /\ mu = unlocked
    /\ thr = [t \in Threads |-> idle]
    /\ nAppends = 0
    /\ nFaults = 0
    /\ codec \in {noCodec} \cup {[noCodec EXCEPT !.buf = b, !.n = MaxRecords] : b \in rawBuffers}
    /\ inmem = noInMem
    /\ loop = noLoop
    /\ scan = noScan
    /\ fds = noFds
    /\ sized = noSized

\* newDataDirFileLogEntry and toBytes: the record goes to the end of the buffer.
Encode(key, value, now) ==
    /\ codec.n < MaxRecords
    /\ \E ddfle \in {newDataDirFileLogEntry(key, value, now)} :
           codec' = [ buf   |-> codec.buf \o toBytes(ddfle),
                      at    |-> Len(codec.buf),
                      n     |-> codec.n + 1,
                      entry |-> Ref(ddfle),
                      dec   |-> Nil ]
    /\ UNCHANGED engineVars
    /\ UNCHANGED <<mu, thr, inmem, loop, scan, sized>>

\* readEntry at the offset of the record encoded last (0 in a raw buffer).
Decode ==
    /\ codec.dec = Nil
    /\ codec.buf # <<>>
    /\ codec' = [codec EXCEPT !.dec = Ref(readEntry(codec.buf, codec.at))]
    /\ UNCHANGED engineVars
    /\ UNCHANGED <<mu, thr, inmem, loop, scan, sized>>

NextCodec ==
    \/ \E key \in Keys, value \in Values, now \in Times : Encode(key, value, now)
    \/ Decode

SpecCodec == InitCodec /\ [][NextCodec]_vars

\* ------------------------------------- the two engines side by side
\* A caller makes every call on a Bitcask engine opened on an empty directory
\* and, with the same arguments, on an in-memory engine.

\* InMemStorageEngine.Set without the check of the key.
inmemSetAnyKey(hashMap, key, value) ==
    [err |-> "nil", hashMap |-> mapPut(hashMap, key, value)]

\* InMemStorageEngine.Set
inmemSet(hashMap, key, value) ==
    IF key = <<>>
    THEN [err |-> "key cannot be empty", hashMap |-> hashMap]
    ELSE [err |-> "nil", hashMap |-> mapPut(hashMap, key, value)]

\* InMemStorageEngine.Get
inmemGet(hashMap, key) ==
    IF key \notin DOMAIN hashMap
    THEN [value |-> <<>>, err |-> "key not found"]
    ELSE [value |-> hashMap[key], err |-> "nil"]

\* InMemStorageEngine.Del
inmemDel(hashMap, key) == [err |-> "nil", hashMap |-> mapDelete(hashMap, key)]

InitBoth ==
    /\ files = <<<<>>>>
    /\ flock = Ref(shared)
    /\ engine = [e \in Engines |->
                    IF e = shared
                    THEN Ref([ keyDir    |-> <<>>,
                               activeLog |-> Ref(openLogFile(<<>>, 1)),
                               fLock     |-> TRUE ])
                    ELSE Nil]
    /\ last = call("New", shared, <<>>, <<>>, "nil", <<{}>>)
    /\ hist = noHist
    /\ snap = Nil
    /\ tail = <<0>>
    /\ mu = unlocked
    /\ thr = [t \in Threads |-> idle]
    /\ nAppends = 0
    /\ nFaults = 0
    /\ codec = noCodec
    /\ inmem = noInMem
    /\ loop = noLoop
    /\ scan = noScan
    /\ fds = [noFds EXCEPT !.log = {<<shared, 1>>}]
    /\ sized = noSized

\* Set(key, value) on both engines.
BothSet(key, value) ==
    /\ nAppends < MaxAppends
    /\ \E bcse \in {engine[shared][1]}, now \in Times :
       \E ddfle \in {newDataDirFileLogEntry(key, value, now)}, l \in {bcse.activeLog[1]} :
       \E n \in {headerSize + ddfle.keySize + ddfle.valueSize} :
       \E bytesWritten \in writeOutcomes(n) :
       \E seekOk \in seekOutcomes(bytesWritten, n) :
       \E w \in {setLogEntry(l, files[l.fileId], ddfle, bytesWritten, seekOk)} :
           /\ files' = [files EXCEPT ![l.fileId] = w.file]
           /\ tail' = [tail EXCEPT ![l.fileId] =
                          tailAfter(tail[l.fileId], Len(files[l.fileId]), Len(w.file), n)]
           /\ nAppends' = nAppends + 1
           /\ nFaults' = IF bytesWritten < n THEN nFaults + 1 ELSE nFaults
           /\ engine' = [engine EXCEPT ![shared] =
                 IF w.err # "nil"
                 THEN Ref([bcse EXCEPT !.activeLog = Ref(w.log)])
                 ELSE Ref([ bcse EXCEPT
                            !.activeLog = Ref(w.log),
                            !.keyDir = mapPut(bcse.keyDir, key,
                                keyDirEntry(l, ddfle, w.valueStartOffset)) ])]
           /\ last' = call("Set", shared, key, value, w.err, <<>>)
           /\ hist' = IF w.err = "nil"
                      THEN [hist EXCEPT ![key] =
                               [op |-> "set", value |-> value, fileId |-> l.fileId]]
                      ELSE hist
    /\ \E r \in {inmemSet(inmem.hashMap, key, value)} :
           inmem' = [hashMap |-> r.hashMap,
                     last |-> call("Set", "", key, value, r.err, <<>>)]
    /\ UNCHANGED <<flock, snap, mu, thr, codec, loop, scan, sized, fds>>

\* Get(key) on both engines.
BothGet(key) ==
    /\ \E r \in {getResult(engine[shared][1], files, key)} :
           last' = call("Get", shared, key, <<>>, r.err, r.value)
    /\ \E r \in {inmemGet(inmem.hashMap, key)} :
           inmem' = [inmem EXCEPT !.last = call("Get", "", key, <<>>, r.err, r.value)]
    /\ UNCHANGED <<files, flock, engine, hist, snap, tail, nAppends, nFaults, mu, thr, codec, loop, scan, sized, fds>>

\* Delete(key) on both engines.
BothDelete(key) ==
    /\ \E bcse \in {engine[shared][1]} :
       IF ~hasKey(bcse.keyDir, key)
       THEN /\ last' = call("Delete", shared, key, <<>>, "nil", <<>>)
            /\ hist' = [hist EXCEPT ![key] = [op |-> "del", value |-> <<>>, fileId |-> 1]]
            /\ UNCHANGED <<files, engine, tail, nAppends, nFaults>>
       ELSE /\ nAppends < MaxAppends
            /\ \E now \in Times :
               \E tombstoneEntry \in {newDataDirFileLogEntry(key, tombstone, now)},
                  l \in {bcse.activeLog[1]} :
               \E n \in {headerSize + tombstoneEntry.keySize + tombstoneEntry.valueSize} :
               \E bytesWritten \in writeOutcomes(n) :
               \E seekOk \in seekOutcomes(bytesWritten, n) :
               \E w \in {setLogEntry(l, files[l.fileId], tombstoneEntry, bytesWritten, seekOk)} :
                   /\ files' = [files EXCEPT ![l.fileId] = w.file]
                   /\ tail' = [tail EXCEPT ![l.fileId] =
                                  tailAfter(tail[l.fileId], Len(files[l.fileId]), Len(w.file), n)]
                   /\ nAppends' = nAppends + 1
                   /\ nFaults' = IF bytesWritten < n THEN nFaults + 1 ELSE nFaults
                   /\ engine' = [engine EXCEPT ![shared] =
                         IF w.err # "nil"
                         THEN Ref([bcse EXCEPT !.activeLog = Ref(w.log)])
                         ELSE Ref([ bcse EXCEPT
                                    !.activeLog = Ref(w.log),
                                    !.keyDir = mapDelete(bcse.keyDir, key) ])]
                   /\ last' = call("Delete", shared, key, <<>>, w.err, <<>>)
                   /\ hist' = IF w.err = "nil"
                              THEN [hist EXCEPT ![key] =
                                       [op |-> "del", value |-> <<>>, fileId |-> l.fileId]]
                              ELSE hist
    /\ \E r \in {inmemDel(inmem.hashMap, key)} :
           inmem' = [hashMap |-> r.hashMap,
                     last |-> call("Delete", "", key, <<>>, r.err, <<>>)]
    /\ UNCHANGED <<flock, snap, mu, thr, codec, loop, scan, sized, fds>>

NextBoth ==
    \/ \E key \in Keys, value \in Values : BothSet(key, value)
    \/ \E key \in Keys : BothGet(key)
    \/ \E key \in Keys : BothDelete(key)

SpecBoth == InitBoth /\ [][NextBoth]_vars

\* ---------------------------------------------- the interactive loop
\* runLoop of main.go on a KVStore.  The input is a sequence of pieces: " ",
\* "\n", and strings without a space or a newline; pieces that follow each
\* other make up one string.

\* Lines of input that end with a newline.
MaxLines == 3

\* KVStore.Set that stores the empty value.
kvsSetAnyValue(hashMap, key, value) ==
    IF key = "" THEN [err |-> "KEY CANNOT BE EMPTY", hashMap |-> hashMap]
    ELSE [err |-> "nil", hashMap |-> mapPut(hashMap, key, value)]

\* KVStore.Set
kvsSet(hashMap, key, value) ==
    IF key = "" THEN [err |-> "KEY CANNOT BE EMPTY", hashMap |-> hashMap]
    ELSE IF value = "" THEN [err |-> "VALUE CANNOT BE EMPTY", hashMap |-> hashMap]
    ELSE [err |-> "nil", hashMap |-> mapPut(hashMap, key, value)]

\* KVStore.Del
kvsDel(hashMap, key) == mapDelete(hashMap, key)

\* The string that the pieces make up.
RECURSIVE join(_)
join(pieces) == IF pieces = <<>> THEN "" ELSE Head(pieces) \o join(Tail(pieces))

\* strings.Split(line, " "): a new word starts after every space.
RECURSIVE Split(_)
Split(pieces) ==
    IF pieces = <<>> THEN <<"">>
    ELSE LET rest == Split(Tail(pieces))
         IN  IF Head(pieces) = " " THEN <<"">> \o rest
             ELSE <<Head(pieces) \o rest[1]>> \o Tail(rest)

\* The lines a user can type, each with the command it is: a well-formed
\* "set k v", a "del k", "exit", or none of these.
noCommand(text) == [text |-> text, op |-> "none", key |-> "", value |-> ""]
inputLines ==
    { [text |-> <<"set", " ", "k", " ", "v">>, op |-> "set", key |-> "k", value |-> "v"],
      [text |-> <<"set", " ", "k", " ", "w">>, op |-> "set", key |-> "k", value |-> "w"],
      [text |-> <<"set", " ", "j", "k", " ", "v">>, op |-> "set", key |-> "jk", value |-> "v"],
      [text |-> <<"del", " ", "k">>, op |-> "del", key |-> "k", value |-> ""],
      [text |-> <<"del", " ">>, op |-> "del", key |-> "", value |-> ""],
      [text |-> <<"exit">>, op |-> "exit", key |-> "", value |-> ""],
      noCommand(<<>>),
      noCommand(<<"set", " ", " ", "v">>),
      noCommand(<<"set", " ", "k", " ">>),
      noCommand(<<"set", " ", "k">>),
      noCommand(<<"set", " ", "k", " ", "v", " ", "w">>),
      noCommand(<<"del", " ", "k", " ", "v">>),
      noCommand(<<"get", " ", "k">>),
      noCommand(<<"getall">>),
      noCommand(<<"exit", " ">>),
      noCommand(<<"a", " ", "b", " ", "c">>) }

\* What can follow the last newline of the input.
lastPieces == {<<>>, <<"exit">>, <<"set", " ", "k", " ", "v">>, <<"del", " ", "k">>}

\* The pieces of the lines of script, each line with its newline.
RECURSIVE streamOf(_)
streamOf(script) ==
    IF script = <<>> THEN <<>>
    ELSE Head(script).text \o <<"\n">> \o streamOf(Tail(script))

InitLoop ==
    /\ files = <<>>
    /\ flock = Nil
    /\ engine = [e \in Engines |-> Nil]
    /\ last = noCall
    /\ hist = noHist
    /\ snap = Nil
    /\ tail = <<>>
    /\ mu = unlocked
    /\ thr = [t \in Threads |-> idle]
    /\ nAppends = 0
    /\ nFaults = 0
    /\ codec = noCodec
    /\ inmem = noInMem
    /\ \E n \in 0..MaxLines : \E script \in [1..n -> inputLines], rest \in lastPieces :
           loop = [ script  |-> script,
                    input   |-> streamOf(script) \o rest,
                    hashMap |-> <<>>,
                    ret     |-> "running" ]
    /\ scan = noScan
    /\ fds = noFds
    /\ sized = noSized

\* The index of the first newline of input, 0 when it has none.
newlineAt(input) ==
    IF \E i \in DOMAIN input : input[i] = "\n"
    THEN minOf({i \in DOMAIN input : input[i] = "\n"})
    ELSE 0

\* One iteration of the loop of runLoop.
runLoop ==
    /\ loop.ret = "running"
    /\ \E at \in {newlineAt(loop.input)} :
       IF at = 0
       THEN \* reader.ReadString returns io.EOF with what is left of the input
            loop' = [loop EXCEPT !.input = <<>>, !.ret = "EOF"]
       ELSE \E line \in {SubSeq(loop.input, 1, at - 1)},
               rest \in {SubSeq(loop.input, at + 1, Len(loop.input))} :
            \E words \in {Split(line)} :
            IF join(line) = "exit"
            THEN loop' = [loop EXCEPT !.input = rest, !.ret = "nil"]
            ELSE IF join(line) = ""
            THEN loop' = [loop EXCEPT !.input = rest]
            ELSE IF Len(words) = 3 /\ words[1] = "set"
            THEN loop' = [loop EXCEPT !.input = rest,
                                      !.hashMap = kvsSet(loop.hashMap, words[2], words[3]).hashMap]
            ELSE IF Len(words) = 2 /\ words[1] = "del"
            THEN loop' = [loop EXCEPT !.input = rest,
                                      !.hashMap = kvsDel(loop.hashMap, words[2])]
            ELSE \* get, getall and the invalid commands only print
                 loop' = [loop EXCEPT !.input = rest]
    /\ UNCHANGED engineVars
    /\ UNCHANGED <<mu, thr, codec, inmem, scan, sized>>

NextLoop == runLoop

SpecLoop == InitLoop /\ [][NextLoop]_vars

\* ------------------------------------------------ the startup step by step
\* NewBitCaskStorageEngine(dataDir), the result kept in handle shared, one
\* statement of getKeyDir at a time, on a directory of log files that earlier
\* sessions wrote.

\* The records in the log files of the directory.
MaxScanRecords == 3

\* The records earlier sessions can have appended.
scanRecords ==
    {newDataDirFileLogEntry(k, v, now) : k \in Keys, v \in Values, now \in Times}

\* The bytes of a log file to which records were appended, whole.
RECURSIVE logOf(_)
logOf(records) ==
    IF records = <<>> THEN <<>> ELSE toBytes(Head(records)) \o logOf(Tail(records))

recordSeqs == UNION {[1..n -> scanRecords] : n \in 0..MaxScanRecords}

\* The data directories: no log file, one log file, or two of which the first
\* was the active log of an earlier session than the second.
directories ==
    {<<>>} \cup {<<logOf(rs)>> : rs \in recordSeqs}
           \cup UNION {{<<logOf(SubSeq(rs, 1, p)), logOf(SubSeq(rs, p + 1, Len(rs)))>> :
                            p \in 0..Len(rs)} : rs \in recordSeqs}

\* A header that readEntry rejects: key size 2^20 + 1.
corruptHeader ==
    <<0, 0, 0, 0>> \o writeInt64(1) \o <<0, 0, 0, 0, 0, 16, 0, 1>> \o writeInt64(0)

\* The data directories with a damaged log file: in the first of two log
\* files a corrupt header follows at most one record and at most one record
\* follows it.
damagedDirectories ==
    { <<logOf(a) \o corruptHeader \o logOf(b), logOf(c)>> :
          a \in {rs \in recordSeqs : Len(rs) <= 1},
          b \in {rs \in recordSeqs : Len(rs) <= 1},
          c \in {rs \in recordSeqs : Len(rs) <= 1} }

\* The position in file f, from position on, of the first record that
\* readEntry does not return: the end of a file of whole records.
RECURSIVE firstError(_, _)
firstError(f, position) ==
    LET r == readEntry(f, position)
    IN  IF r.err # "nil" THEN position ELSE firstError(f, position + r.entrySize)

\* The lock on bitcask.lock held by a process other than this one.
otherProcess == Ref("another process")

\* No engine yet, on a directory of whole records or on a damaged one, its
\* lock free or (the directory empty) held by another process.
InitScan ==
    /\ files \in directories \cup damagedDirectories
    /\ flock \in (IF files = <<>> THEN {Nil, otherProcess} ELSE {Nil})
    /\ engine = [e \in Engines |-> Nil]
    /\ last = noCall
    /\ hist = noHist
    /\ snap = Nil
    /\ tail = [id \in DOMAIN files |->
                 IF firstError(files[id], 0) = Len(files[id]) THEN Len(files[id]) ELSE -1]
    /\ mu = unlocked
    /\ thr = [t \in Threads |-> idle]
    /\ nAppends = 0
    /\ nFaults = 0
    /\ codec = noCodec
    /\ inmem = noInMem
    /\ loop = noLoop
    /\ scan = noScan
    /\ fds = noFds
    /\ sized = noSized

\* New: os.MkdirAll and fLock.TryLock()
NewLock ==
    /\ scan.pc = "none" /\ ~exists(shared)
    /\ IF ~tryLock(flock)
       THEN /\ scan' = [scan EXCEPT !.pc = "returned"]
            /\ last' = call("New", shared, <<>>, <<>>, "locked", <<>>)
            /\ UNCHANGED flock
       ELSE /\ scan' = [scan EXCEPT !.pc = "readdir"]
            /\ flock' = Ref(shared)
            /\ UNCHANGED last
    /\ UNCHANGED <<files, engine, hist, snap, tail, nAppends, fds, nFaults>>
    /\ UNCHANGED <<mu, thr, codec, inmem, loop, sized>>

\* getKeyDir: os.ReadDir, and the error path of New when it fails
ScanReadDir ==
    /\ scan.pc = "readdir"
    /\ \E out \in openOutcomes \cap {"nil", "readdir"} :
       IF out = "nil"
       THEN /\ scan' = [scan EXCEPT !.pc = "next", !.entries = DOMAIN files]
            /\ UNCHANGED <<flock, last, nFaults>>
       ELSE \E unlockFails \in unlockFailures :
            /\ scan' = [scan EXCEPT !.pc = "returned"]
            /\ flock' = Unlock(Ref(shared), unlockFails)
            /\ last' = call("New", shared, <<>>, <<>>, out, <<unlockFails>>)
            /\ nFaults' = nFaults + 1
    /\ UNCHANGED <<files, engine, hist, snap, tail, nAppends, fds>>
    /\ UNCHANGED <<mu, thr, codec, inmem, loop, sized>>

\* getKeyDir: the next directory entry, its id counted, and os.Open on it; a
\* file that cannot be opened is skipped
ScanOpen ==
    /\ scan.pc = "next" /\ scan.entries # {}
    /\ \E fileId \in {minOf(scan.entries)} :
       \E openFails \in {FALSE} \cup (IF nFaults < MaxFaults THEN {TRUE} ELSE {}) :
       IF openFails
       THEN /\ scan' = [scan EXCEPT !.entries = @ \ {fileId},
                                    !.maxFileId = maxOf({@, fileId}),
                                    !.unreadable = @ \cup {fileId}]
            /\ nFaults' = nFaults + 1
            /\ UNCHANGED fds
       ELSE /\ scan' = [scan EXCEPT !.pc = "read",
                                    !.entries = @ \ {fileId},
                                    !.maxFileId = maxOf({@, fileId}),
                                    !.fileId = fileId,
                                    !.position = 0]
            /\ fds' = [fds EXCEPT !.scan = @ \cup {fileId}]
            /\ UNCHANGED nFaults
    /\ UNCHANGED <<files, flock, engine, last, hist, snap, tail, nAppends>>
    /\ UNCHANGED <<mu, thr, codec, inmem, loop, sized>>

\* A break that ends the scan of the directory.
breakAll(s) == [s EXCEPT !.pc = "close", !.entries = {}]

\* getKeyDir: the break out of the inner loop, to file.Close() and the next
\* directory entry.
break(s) == [s EXCEPT !.pc = "close"]

\* getKeyDir: one turn of the inner loop, readEntry at position and the
\* update of the key directory, or the break at the end of the file and at a
\* record that cannot be read
ScanRead ==
    /\ scan.pc = "read"
    /\ \E r \in {readEntry(files[scan.fileId], scan.position)} :
       IF r.err # "nil"
       THEN scan' = break(scan)
       ELSE scan' = [scan EXCEPT
                        !.keyDir = scanEntry(@, scan.fileId, scan.position, r.entry[1]),
                        !.position = @ + r.entrySize]
    /\ UNCHANGED engineVars
    /\ UNCHANGED <<mu, thr, codec, inmem, loop, sized>>

\* getKeyDir: file.Close() after the inner loop
ScanClose ==
    /\ scan.pc = "close"
    /\ scan' = [scan EXCEPT !.pc = "next"]
    /\ fds' = [fds EXCEPT !.scan = closeFile(@, scan.fileId)]
    /\ UNCHANGED <<files, flock, engine, last, hist, snap, tail, nAppends, nFaults>>
    /\ UNCHANGED <<mu, thr, codec, inmem, loop, sized>>

\* New after getKeyDir returned: openLogFile on the next file id and the
\* engine, or the error path when openLogFile fails
NewOpenLog ==
    /\ scan.pc = "next" /\ scan.entries = {}
    /\ \E out \in openOutcomes \cap {"nil", "openfile", "stat"} :
       \E nextFileId \in {scan.maxFileId + 1} :
       IF out = "nil"
       THEN \E activeLog \in {openLogFile(created(files, nextFileId)[nextFileId],
                                          nextFileId)} :
            /\ files' = created(files, nextFileId)
            /\ tail' = IF nextFileId \in DOMAIN tail THEN tail
                       ELSE mapPut(tail, nextFileId, 0)
            /\ engine' = [engine EXCEPT ![shared] =
                             Ref([ keyDir    |-> scan.keyDir,
                                   activeLog |-> Ref(activeLog),
                                   fLock     |-> TRUE ])]
            /\ fds' = [fds EXCEPT !.log = @ \cup {<<shared, nextFileId>>}]
            /\ last' = call("New", shared, <<>>, <<>>, "nil", <<scan.unreadable>>)
            /\ UNCHANGED <<flock, nFaults>>
       ELSE \E unlockFails \in unlockFailures :
            /\ files' = IF out = "stat" THEN created(files, nextFileId) ELSE files
            /\ tail' = IF out = "stat" /\ nextFileId \notin DOMAIN tail
                       THEN mapPut(tail, nextFileId, 0)
                       ELSE tail
            /\ fds' = IF out = "stat"
                      THEN [fds EXCEPT !.log = closeFile(@ \cup {<<shared, nextFileId>>},
                                                         <<shared, nextFileId>>)]
                      ELSE fds
            /\ flock' = Unlock(Ref(shared), unlockFails)
            /\ last' = call("New", shared, <<>>, <<>>, out, <<unlockFails>>)
            /\ nFaults' = nFaults + 1
            /\ UNCHANGED engine
    /\ scan' = [scan EXCEPT !.pc = "returned"]
    /\ UNCHANGED <<hist, snap, nAppends>>
    /\ UNCHANGED <<mu, thr, codec, inmem, loop, sized>>

NextScan ==
    \/ NewLock
    \/ ScanReadDir
    \/ ScanOpen
    \/ ScanRead
    \/ ScanClose
    \/ NewOpenLog

SpecScan == InitScan /\ [][NextScan]_vars

\* ------------------------------------------ the descriptors of one engine
\* One engine from its startup to its Close, with goroutines that call Get on
\* it once it exists: the startup statement by statement, Get with the system
\* calls of getLogValue as steps of their own, and Close under bcse.mu.

\* The data directories the engine is started on: none, and two log files of
\* earlier sessions with a record each.
handleDirectories ==
    { <<>>,
      << logOf(<<newDataDirFileLogEntry(<<97>>, <<120>>, 1)>>),
         logOf(<<newDataDirFileLogEntry(<<>>, <<120>>, 2)>>) >> }

InitHandles ==
    /\ files \in handleDirectories
    /\ flock = Nil
    /\ engine = [e \in Engines |-> Nil]
    /\ last = noCall
    /\ hist = noHist
    /\ snap = Nil
    /\ tail = [id \in DOMAIN files |-> Len(files[id])]
    /\ mu = unlocked
    /\ thr \in [Threads -> {p \in Programs : p.op = "Get"}]
    /\ nAppends = 0
    /\ nFaults = 0
    /\ codec = noCodec
    /\ inmem = noInMem
    /\ loop = noLoop
    /\ scan = noScan
    /\ fds = noFds
    /\ sized = noSized

\* bcse.keyDir of the shared engine.
keyDirOfShared == engine[shared][1].keyDir

\* Get: the lookup in bcse.keyDir and, for a key it holds, os.OpenFile in
\* getLogValue
GetOpen(t) ==
    /\ thr[t].op = "Get" /\ thr[t].pc = "rlocked"
    /\ IF thr[t].key \notin DOMAIN keyDirOfShared
       THEN /\ thr' = [thr EXCEPT ![t].pc = "read", ![t].err = "notfound"]
            /\ UNCHANGED <<fds, nFaults>>
       ELSE \E openFails \in {FALSE} \cup (IF nFaults < MaxFaults THEN {TRUE} ELSE {}) :
            IF openFails \/ keyDirOfShared[thr[t].key].fileId \notin DOMAIN files
            THEN /\ thr' = [thr EXCEPT ![t].pc = "read", ![t].err = "io"]
                 /\ nFaults' = IF openFails THEN nFaults + 1 ELSE nFaults
                 /\ UNCHANGED fds
            ELSE /\ thr' = [thr EXCEPT ![t].pc = "opened"]
                 /\ fds' = [fds EXCEPT !.get = @ \cup {t}]
                 /\ UNCHANGED nFaults
    /\ UNCHANGED <<files, flock, engine, last, hist, snap, tail, nAppends, mu>>
    /\ UNCHANGED aside

\* Get: file.ReadAt in getLogValue, the deferred file.Close(), and the check
\* of the value against the tombstone
GetReadAt(t) ==
    /\ thr[t].op = "Get" /\ thr[t].pc = "opened"
    /\ \E readFails \in {FALSE} \cup (IF nFaults < MaxFaults THEN {TRUE} ELSE {}) :
       \E r \in {getResult(engine[shared][1], files, thr[t].key)} :
           /\ thr' = IF readFails
                     THEN [thr EXCEPT ![t].pc = "read", ![t].err = "io"]
                     ELSE [thr EXCEPT ![t].pc = "read", ![t].err = r.err, ![t].ret = r.value]
           /\ nFaults' = IF readFails THEN nFaults + 1 ELSE nFaults
    /\ fds' = [fds EXCEPT !.get = closeFile(@, t)]
    /\ UNCHANGED <<files, flock, engine, last, hist, snap, tail, nAppends, mu>>
    /\ UNCHANGED aside

\* Close on the shared engine: it runs when it has bcse.mu for writing
CloseShared == canLock(mu) /\ Close(shared)

NextHandles ==
    \/ NewLock
    \/ ScanReadDir
    \/ ScanOpen
    \/ ScanRead
    \/ ScanClose
    \/ NewOpenLog
    \/ \E t \in Threads : GetRLock(t)
    \/ \E t \in Threads : GetOpen(t)
    \/ \E t \in Threads : GetReadAt(t)
    \/ \E t \in Threads : GetRUnlock(t)
    \/ CloseShared

SpecHandles == InitHandles /\ [][NextHandles]_vars

\* ------------------------------------------ every call of one open engine
\* Goroutines call Set, Get, Delete and Close on one open engine, each call
\* once: the four methods with bcse.mu, their bodies and their deferred
\* releases as steps.

\* The calls a goroutine can make.
Calls ==
    {[idle EXCEPT !.op = "Set", !.key = k, !.value = <<120>>, !.pc = "start"] : k \in Keys}
        \cup {[idle EXCEPT !.op = o, !.key = k, !.pc = "start"] :
                  o \in {"Get", "Delete"}, k \in Keys}
        \cup {[idle EXCEPT !.op = "Close", !.pc = "start"]}

\* An engine just opened on an empty directory, and a call for every goroutine.
InitCalls ==
    /\ files = <<<<>>>>
    /\ flock = Ref(shared)
    /\ engine = [e \in Engines |->
                    IF e = shared
                    THEN Ref([ keyDir    |-> <<>>,
                               activeLog |-> Ref(openLogFile(<<>>, 1)),
                               fLock     |-> TRUE ])
                    ELSE Nil]
    /\ last = call("New", shared, <<>>, <<>>, "nil", <<{}>>)
    /\ hist = noHist
    /\ snap = Nil
    /\ tail = <<0>>
    /\ mu = unlocked
    /\ thr \in [Threads -> Calls]
    /\ nAppends = 0
    /\ nFaults = 0
    /\ codec = noCodec
    /\ inmem = noInMem
    /\ loop = noLoop
    /\ scan = noScan
    /\ fds = [noFds EXCEPT !.log = {<<shared, 1>>}]
    /\ sized = noSized

\* Delete: bcse.mu.Lock()
DeleteLock(t) ==
    /\ thr[t].op = "Delete" /\ thr[t].pc = "start"
    /\ canLock(mu)
    /\ mu' = [mu EXCEPT !.writer = Ref(t)]
    /\ thr' = [thr EXCEPT ![t].pc = "locked"]
    /\ UNCHANGED <<files, flock, engine, last, hist, snap, tail, nAppends, nFaults, fds>>
    /\ UNCHANGED aside

\* Delete: the lookup in bcse.keyDir, the append of the tombstone and the
\* removal of the key
DeleteAppend(t) ==
    /\ thr[t].op = "Delete" /\ thr[t].pc = "locked"
    /\ \E bcse \in {engine[shared][1]}, key \in {thr[t].key} :
       IF ~hasKey(bcse.keyDir, key)
       THEN /\ thr' = [thr EXCEPT ![t].pc = "stored", ![t].err = "nil"]
            /\ IF bcse.activeLog # Nil
               THEN hist' = [hist EXCEPT ![key] =
                                [op |-> "del", value |-> <<>>,
                                 fileId |-> bcse.activeLog[1].fileId]]
               ELSE UNCHANGED hist
            /\ UNCHANGED <<files, engine, tail, nAppends, nFaults>>
       ELSE IF bcse.activeLog = Nil
       THEN \* nil pointer dereference in setLogEntry; the deferred Unlock runs
            /\ thr' = [thr EXCEPT ![t].pc = "stored", ![t].err = "panic"]
            /\ UNCHANGED <<files, engine, hist, tail, nAppends, nFaults>>
       ELSE \E now \in Times :
            \E tombstoneEntry \in {newDataDirFileLogEntry(key, tombstone, now)},
               l \in {bcse.activeLog[1]} :
            \E n \in {headerSize + tombstoneEntry.keySize + tombstoneEntry.valueSize} :
            \E bytesWritten \in writeOutcomes(n) :
            \E seekOk \in seekOutcomes(bytesWritten, n) :
            \E w \in {setLogEntry(l, files[l.fileId], tombstoneEntry, bytesWritten, seekOk)} :
                /\ files' = [files EXCEPT ![l.fileId] = w.file]
                /\ tail' = [tail EXCEPT ![l.fileId] =
                               tailAfter(tail[l.fileId], Len(files[l.fileId]), Len(w.file), n)]
                /\ nAppends' = nAppends + 1
                /\ nFaults' = IF bytesWritten < n THEN nFaults + 1 ELSE nFaults
                /\ thr' = [thr EXCEPT ![t].pc = "stored", ![t].err = w.err]
                /\ IF w.err # "nil"
                   THEN /\ engine' = [engine EXCEPT ![shared] =
                                         Ref([bcse EXCEPT !.activeLog = Ref(w.log)])]
                        /\ UNCHANGED hist
                   ELSE /\ engine' = [engine EXCEPT ![shared] =
                             Ref([ bcse EXCEPT
                                   !.activeLog = Ref(w.log),
                                   !.keyDir = mapDelete(bcse.keyDir, key) ])]
                        /\ hist' = [hist EXCEPT ![key] =
                                      [op |-> "del", value |-> <<>>, fileId |-> l.fileId]]
    /\ UNCHANGED <<flock, last, snap, mu, fds>>
    /\ UNCHANGED aside

\* Delete: the deferred bcse.mu.Unlock() and the return
DeleteUnlock(t) ==
    /\ thr[t].op = "Delete" /\ thr[t].pc = "stored"
    /\ mu' = deferredUnlock(mu, t, thr[t].err)
    /\ thr' = [thr EXCEPT ![t].pc = "done"]
    /\ last' = call("Delete", shared, thr[t].key, <<>>, thr[t].err, <<>>)
    /\ UNCHANGED <<files, flock, engine, hist, snap, tail, nAppends, nFaults, fds>>
    /\ UNCHANGED aside

\* Close: bcse.mu.Lock()
CloseLock(t) ==
    /\ thr[t].op = "Close" /\ thr[t].pc = "start"
    /\ canLock(mu)
    /\ mu' = [mu EXCEPT !.writer = Ref(t)]
    /\ thr' = [thr EXCEPT ![t].pc = "locked"]
    /\ UNCHANGED <<files, flock, engine, last, hist, snap, tail, nAppends, nFaults, fds>>
    /\ UNCHANGED aside

\* Close: activeLog.Close() and fLock.Unlock(), each when there is something
\* to release
CloseFiles(t) ==
    /\ thr[t].op = "Close" /\ thr[t].pc = "locked"
    /\ \E bcse \in {engine[shared][1]} :
       \E logCloseFailed \in logCloseOutcomes(bcse.activeLog) :
       \E unlockFailed \in (IF hasLock(bcse) THEN unlockFailures ELSE {FALSE}) :
           /\ engine' = [engine EXCEPT ![shared] =
                            Ref([bcse EXCEPT !.activeLog = Nil, !.fLock = FALSE])]
           /\ flock' = IF hasLock(bcse) THEN Unlock(flock, unlockFailed) ELSE flock
           /\ snap' = IF bcse.activeLog # Nil
                      THEN Ref([live |-> DOMAIN bcse.keyDir, get |-> view(shared)])
                      ELSE snap
           /\ fds' = IF bcse.activeLog # Nil
                     THEN [fds EXCEPT !.log = closeFile(@, <<shared, bcse.activeLog[1].fileId>>)]
                     ELSE fds
           /\ nFaults' = IF logCloseFailed \/ unlockFailed THEN nFaults + 1 ELSE nFaults
           /\ thr' = [thr EXCEPT ![t].pc = "stored",
                                 ![t].err = closeError(logCloseFailed, unlockFailed)]
    /\ UNCHANGED <<files, last, hist, tail, nAppends, mu>>
    /\ UNCHANGED aside

\* Close: the deferred bcse.mu.Unlock() and the return
CloseUnlock(t) ==
    /\ thr[t].op = "Close" /\ thr[t].pc = "stored"
    /\ mu' = deferredUnlock(mu, t, thr[t].err)
    /\ thr' = [thr EXCEPT ![t].pc = "done"]
    /\ last' = call("Close", shared, <<>>, <<>>, thr[t].err, <<>>)
    /\ UNCHANGED <<files, flock, engine, hist, snap, tail, nAppends, nFaults, fds>>
    /\ UNCHANGED aside

\* The steps of goroutine t.
callStep(t) ==
    \/ SetLock(t)
    \/ SetWrite(t)
    \/ SetStore(t)
    \/ SetUnlock(t)
    \/ GetRLock(t)
    \/ GetRead(t)
    \/ GetRUnlock(t)
    \/ DeleteLock(t)
    \/ DeleteAppend(t)
    \/ DeleteUnlock(t)
    \/ CloseLock(t)
    \/ CloseFiles(t)
    \/ CloseUnlock(t)

NextCalls == \E t \in Threads : callStep(t)

SpecCalls == InitCalls /\ [][NextCalls]_vars

\* SpecCalls with every goroutine scheduled: a step of a goroutine that stays
\* possible is taken.  A goroutine blocked in Lock or RLock has no step; the
\* system calls of the bodies complete.
SpecCallsFair == SpecCalls /\ \A t \in Threads : WF_vars(callStep(t))

\* ------------------------------------------- a session that goes on
\* The engine operations from the point where a session on an empty directory
\* has stored its first record; MaxAppends bounds the appends that follow it.

\* The first Set of the session: Set("a", "x") at any clock reading.
firstSets == {[key |-> <<97>>, value |-> <<120>>, now |-> t] : t \in Times}

InitRevive ==
    /\ \E s \in firstSets :
       \E ddfle \in {newDataDirFileLogEntry(s.key, s.value, s.now)} :
       \E l \in {openLogFile(<<>>, 1)} :
       \E w \in {setLogEntry(l, <<>>, ddfle,
                             headerSize + ddfle.keySize + ddfle.valueSize, TRUE)} :
          /\ files = <<w.file>>
          /\ tail = <<Len(w.file)>>
          /\ engine = [e \in Engines |->
                         IF e = handleOrder[1]
                         THEN Ref([ keyDir    |-> mapPut(<<>>, s.key,
                                                    keyDirEntry(l, ddfle, w.valueStartOffset)),
                                    activeLog |-> Ref(w.log),
                                    fLock     |-> TRUE ])
                         ELSE Nil]
          /\ last = call("Set", handleOrder[1], s.key, s.value, "nil", <<>>)
          /\ hist = [noHist EXCEPT ![s.key] =
                        [op |-> "set", value |-> s.value, fileId |-> 1]]
    /\ flock = Ref(handleOrder[1])
    /\ snap = Nil
    /\ mu = unlocked
    /\ thr = [t \in Threads |-> idle]
    /\ nAppends = 0
    /\ nFaults = 0
    /\ codec = noCodec
    /\ inmem = noInMem
    /\ loop = noLoop
    /\ scan = noScan
    /\ fds = [noFds EXCEPT !.log = {<<handleOrder[1], 1>>}]
    /\ sized = noSized

SpecRevive == InitRevive /\ [][Next]_vars

\* ------------------------------------------------- values of any size
\* Set on the engine of a new directory, and the scan of the next startup over
\* the log it leaves, for values given by their size.  The state keeps what
\* Set returned and stored in the key directory and what the scan decoded and
\* entered, not the bytes.

\* The small value sizes.
MaxValueSize == 11

\* The sizes of the values: small ones, and the first one above the bound of
\* the decoder.
valueSizes == (0..MaxValueSize) \cup {maxFieldSize + 1}

\* The value of n bytes: the first n bytes of a buffer of zero bytes.
valueOfSize(n) == SubSeq(zeros(maxFieldSize + 1), 1, n)

InitSizes ==
    /\ files = <<>>
    /\ flock = Nil
    /\ engine = [e \in Engines |-> Nil]
    /\ last = noCall
    /\ hist = noHist
    /\ snap = Nil
    /\ tail = <<>>
    /\ mu = unlocked
    /\ thr = [t \in Threads |-> idle]
    /\ nAppends = 0
    /\ nFaults = 0
    /\ codec = noCodec
    /\ inmem = noInMem
    /\ loop = noLoop
    /\ scan = noScan
    /\ fds = noFds
    /\ sized \in {[noSized EXCEPT !.pc = "input", !.key = k, !.valueSize = n, !.now = t] :
                     k \in Keys, n \in valueSizes, t \in Times}

\* bcse.Set(key, value) with the value of sized.valueSize bytes on the
\* empty active log 1, every system call succeeding, and then getKeyDir over
\* the directory as the next NewBitCaskStorageEngine runs it.
SetThenScan ==
    /\ sized.pc = "input"
    /\ \E ddfle \in {newDataDirFileLogEntry(sized.key, valueOfSize(sized.valueSize), sized.now)} :
       \E l \in {openLogFile(<<>>, 1)} :
       \E w \in {setLogEntry(l, <<>>, ddfle,
                             headerSize + ddfle.keySize + ddfle.valueSize, TRUE)} :
       \E dir \in {getKeyDir(<<w.file>>, {})} :
           sized' = [sized EXCEPT
                        !.pc      = "scanned",
                        !.err     = w.err,
                        !.stored  = Ref(keyDirEntry(l, ddfle, w.valueStartOffset)),
                        !.decoded = readEntry(w.file, 0).err,
                        !.keyDir  = dir.keyDir]
    /\ UNCHANGED engineVars
    /\ UNCHANGED <<mu, thr, codec, inmem, loop, scan>>

NextSizes == SetThenScan

SpecSizes == InitSizes /\ [][NextSizes]_vars

\* ------------------------------------------------------------------ claims
activeFileId(e) == engine[e][1].activeLog[1].fileId
keyDirOf(e) == engine[e][1].keyDir
found(v) == [value |-> v, err |-> "nil"]

\* The record that ends file f, when it is a record of key with a value of
\* valueSize bytes.
tailRecord(f, key, valueSize) ==
    IF Len(f) < headerSize + Len(key) + valueSize
    THEN [err |-> "EOF", entry |-> Nil, entrySize |-> 0]
    ELSE readEntry(f, Len(f) - (headerSize + Len(key) + valueSize))

\* C1: on an open engine, after Set(k, v) has returned success, Get(k) returns
\* exactly v and no error, for every key k and every value v.
C1_GetAfterSet ==
    (last.op = "Set" /\ last.err = "nil" /\ isOpen(last.e))
        => getResult(engine[last.e][1], files, last.key) = found(last.value)

\* C2: after Close and a new open of the same directory, exactly the keys that
\* Get found just before Close are found, each with the same value, and the
\* keys that Get did not find are still not found.
C2_ReopenSameView ==
    (last.op = "New" /\ last.err = "nil" /\ snap # Nil)
        => \A k \in Keys : view(last.e)[k] = snap[1].get[k]

\* C3: on one open engine, Get(k) returns the value of the most recent
\* successful Set(k, .) when no successful Delete(k) came after it.
C3_GetLatestSet ==
    \A e \in Engines, k \in Keys :
        (isOpen(e) /\ hist[k].op = "set" /\ hist[k].fileId = activeFileId(e))
            => view(e)[k] = found(hist[k].value)

\* C4: on an open engine, when the most recent successful operation on k is
\* Delete(k), Get(k) fails with the not-found error.
C4_GetAfterDelete ==
    \A e \in Engines, k \in Keys :
        (isOpen(e) /\ hist[k].op = "del" /\ hist[k].fileId = activeFileId(e))
            => view(e)[k].err = "notfound"

\* A Get that failed with not-found on an open engine, for a key whose
\* tombstone is the record that ends the active log.
C4_Witness ==
    /\ last.op = "Get" /\ last.err = "notfound" /\ isOpen(last.e)
    /\ hist[last.key].op = "del" /\ hist[last.key].fileId = activeFileId(last.e)
    /\ \E r \in {tailRecord(files[activeFileId(last.e)], last.key, Len(tombstone))} :
           r.err = "nil" /\ r.entry[1].key = last.key /\ r.entry[1].value = tombstone

\* C5: a deletion survives restarts: after a reopen, Get(k) fails with
\* not-found for every key whose last successful write was a Delete, in
\* whichever session it was, and every other key has the value it had just
\* before the last Close.
C5_DeleteSurvivesReopen ==
    (last.op = "New" /\ last.err = "nil" /\ snap # Nil)
        => \A k \in Keys :
               IF hist[k].op = "del"
               THEN view(last.e)[k].err = "notfound"
               ELSE view(last.e)[k] = snap[1].get[k]

\* C6: Set("", v) fails with the invalid-argument error and a following
\* Get("") fails with not-found.
C6_EmptyKeyRejected ==
    (last.op = "Set" /\ last.key = <<>> /\ isOpen(last.e))
        => /\ last.err = "invalid"
           /\ view(last.e)[<<>>].err = "notfound"

C8_FailedSetKeepsKeyDir ==
    [][ \A e \in Engines :
          (last'.op = "Set" /\ last'.e = e /\ nFaults' > nFaults)
            => /\ last'.err = "io"
               /\ engine'[e][1].keyDir = engine[e][1].keyDir
               /\ \A k \in Keys : getResult(engine'[e][1], files', k)
                                      = getResult(engine[e][1], files, k) ]_vars

\* A failed Set of a key that is live, with part of its record in the file.
C8_Witness ==
    /\ last.op = "Set" /\ last.err = "io" /\ isOpen(last.e)
    /\ last.key \in DOMAIN keyDirOf(last.e)
    /\ view(last.e)[last.key].err = "nil"
    /\ \E d \in {keyDirOf(last.e)[last.key]} :
           d.fileId = activeFileId(last.e)
           /\ Len(files[d.fileId]) > d.valuePosition + d.valueSize

\* C9: a Delete whose tombstone append fails returns an error, keeps the key
\* in the key directory with its entry, and Get still returns its value.
C9_FailedDeleteKeepsKey ==
    [][ \A e \in Engines, k \in Keys :
          (last'.op = "Delete" /\ last'.e = e /\ last'.key = k /\ nFaults' > nFaults)
            => /\ last'.err = "io"
               /\ k \in DOMAIN engine[e][1].keyDir
               /\ k \in DOMAIN engine'[e][1].keyDir
               /\ engine'[e][1].keyDir[k] = engine[e][1].keyDir[k]
               /\ getResult(engine'[e][1], files', k) = getResult(engine[e][1], files, k) ]_vars

\* A failed Delete of a live key, with part of the tombstone in the file.
C9_Witness ==
    /\ last.op = "Delete" /\ last.err = "io" /\ isOpen(last.e)
    /\ last.key \in DOMAIN keyDirOf(last.e)
    /\ view(last.e)[last.key].err = "nil"
    /\ \E d \in {keyDirOf(last.e)[last.key]} :
           d.fileId = activeFileId(last.e)
           /\ Len(files[d.fileId]) > d.valuePosition + d.valueSize

\* C10: once Close has returned on an engine, every later Set, Get and Delete
\* on it fails with the closed error and returns no value.
C10_ClosedEngineRejects ==
    (last.op \in {"Set", "Get", "Delete"} /\ exists(last.e) /\ ~isOpen(last.e))
        => (last.err = "closed" /\ last.ret = <<>>)

\* The step is Close on handle e, whose engine was open.
closesOpen(e) == isOpen(e) /\ last'.op = "Close" /\ last'.e = e

openErrors == {"readdir", "openfile", "stat"}

C13_DeleteIdempotent ==
    [][ \A e \in Engines, k \in Keys :
          (last'.op = "Delete" /\ last'.e = e /\ last'.key = k /\ exists(e)) =>
              /\ (k \notin DOMAIN engine[e][1].keyDir) =>
                      /\ last'.err = "nil"
                      /\ files' = files /\ engine' = engine /\ flock' = flock
              /\ (last'.err = "nil") =>
                      /\ k \notin DOMAIN engine'[e][1].keyDir
                      /\ getResult(engine'[e][1], files', k).err = "notfound" ]_vars

\* A Delete returned success in a session that appended nothing, for a key
\* whose tombstone an earlier session wrote.
C13_Witness ==
    /\ last.op = "Delete" /\ last.err = "nil" /\ isOpen(last.e)
    /\ files[activeFileId(last.e)] = <<>>
    /\ \E id \in DOMAIN files :
         \E r \in {tailRecord(files[id], last.key, Len(tombstone))} :
           r.err = "nil" /\ r.entry[1].key = last.key /\ r.entry[1].value = tombstone

\* The record that key directory entry d of key k points at.
pointedRecord(fs, k, d) ==
    IF d.fileId \notin DOMAIN fs \/ d.valuePosition - headerSize - Len(k) < 0
    THEN [err |-> "corrupt", entry |-> Nil, entrySize |-> 0]
    ELSE readEntry(fs[d.fileId], d.valuePosition - headerSize - Len(k))

\* C14: on an open engine every key of the key directory points at a record
\* of its file, at value position - 28 - key size, whose key is the directory
\* key and whose value is not the tombstone.
C14_KeyDirPointsAtRecords ==
    \A e \in Engines : isOpen(e) =>
        \A k \in DOMAIN keyDirOf(e) :
            \E r \in {pointedRecord(files, k, keyDirOf(e)[k])} :
                /\ r.err = "nil"
                /\ r.entry[1].key = k
                /\ r.entry[1].value # tombstone

\* C15: on an open engine, after open and after every Set or Delete,
\* successful or failed, the writer position of the active log equals the
\* length of the active file.
C15_WriterPositionIsFileLength ==
    \A e \in Engines : isOpen(e) =>
        engine[e][1].activeLog[1].writerPosition = Len(files[activeFileId(e)])

\* The directory with the truncated last record of every file removed.
withoutTruncatedTail(fs, tl) ==
    [id \in DOMAIN fs |-> IF tl[id] >= 0 THEN SubSeq(fs[id], 1, tl[id]) ELSE fs[id]]

\* A log file that ends in a truncated record which follows whole records.
truncated(id) == 0 < tail[id] /\ tail[id] < Len(files[id])

\* C18: a log file whose last record is truncated does not abort open, and
\* the key directory the open builds is the one it builds from the directory
\* without the truncated tails: every whole record before a truncation is
\* scanned and the tail is ignored.
C18_TruncatedTailIgnored ==
    (last.op = "New" /\ last.err = "nil")
        => keyDirOf(last.e) = getKeyDir(withoutTruncatedTail(files, tail), last.ret[1]).keyDir

\* An open succeeded on a directory with a file that ends in a truncated
\* record, and a key of the new key directory is in that file.
C18_Witness ==
    /\ last.op = "New" /\ last.err = "nil" /\ last.ret = <<{}>>
    /\ \E id \in DOMAIN files :
           /\ truncated(id)
           /\ \E k \in DOMAIN keyDirOf(last.e) : keyDirOf(last.e)[k].fileId = id

\* C19: every successful open creates its active log with the id that is one
\* more than the highest log file id in the directory, files the scan could
\* not read or parse included, and 1 when the directory has no log file; the
\* id is greater than every id that was there, and the new file is empty.
C19_NextFileId ==
    [][ \A e \in Engines :
          (last'.op = "New" /\ last'.err = "nil" /\ last'.e = e /\ last' # last) =>
            \E id \in {engine'[e][1].activeLog[1].fileId} :
              /\ id = maxOf(DOMAIN files) + 1
              /\ \A other \in DOMAIN files : other < id
              /\ DOMAIN files' = (DOMAIN files) \cup {id}
              /\ files'[id] = <<>>
              /\ \A other \in DOMAIN files : files'[other] = files[other] ]_vars

\* An open succeeded although the scan could not open the log file with the
\* highest id, and its active log has the next id.
C19_Witness ==
    /\ last.op = "New" /\ last.err = "nil" /\ isOpen(last.e)
    /\ last.ret[1] # {}
    /\ activeFileId(last.e) = maxOf(last.ret[1]) + 1
    /\ files[maxOf(last.ret[1])] # <<>>

\* f is g with bytes appended, or g.
extends(f, g) == Len(g) <= Len(f) /\ SubSeq(f, 1, Len(g)) = g

\* C20: the active file of an open engine is the log file with the highest
\* id in the directory; a step changes a log file only by appending to it, only
\* in a Set or Delete, and only the active file of the engine that was called,
\* so a file written by an earlier session never changes.
C20_OnlyActiveFileAppended ==
    [][ /\ \A e \in Engines :
              isOpen(e)' => engine'[e][1].activeLog[1].fileId = maxOf(DOMAIN files')
        /\ \A id \in DOMAIN files : id \in DOMAIN files' /\ extends(files'[id], files[id])
        /\ \A id \in DOMAIN files :
              files'[id] # files[id] =>
                  /\ last'.op \in {"Set", "Delete"}
                  /\ isOpen(last'.e)
                  /\ id = activeFileId(last'.e)
                  /\ id = maxOf(DOMAIN files) ]_vars

\* A Set appended to the active file of a second session while the file of
\* the first session holds records.
C20_Witness ==
    /\ last.op = "Set" /\ last.err = "nil" /\ isOpen(last.e)
    /\ activeFileId(last.e) > 1
    /\ files[activeFileId(last.e)] # <<>>
    /\ files[1] # <<>>

\* The goroutines that call Set, and those that call Get.
setters == {t \in Threads : thr[t].op = "Set"}
getters == {t \in Threads : thr[t].op = "Get"}

\* Every goroutine's call has returned.
allReturned == \A t \in Threads : thr[t].pc = "done"

\* C16: when goroutines call Set concurrently on one engine and every call
\* succeeds, then once all calls have returned Get of each key that was set
\* returns the value of the Set on that key that completed last (with pairwise
\* disjoint keys: the value set for it).
C16_ConcurrentSetsVisible ==
    (allReturned /\ \A t \in setters : thr[t].err = "nil")
        => \A k \in Keys :
               hist[k].op = "set"
                   => getResult(engine[shared][1], files, k) = found(hist[k].value)

\* The values the goroutines' Set calls store for key k.
storedFor(k) == {thr[t].value : t \in {u \in setters : thr[u].key = k}}

\* C17: a Get that runs concurrently with Sets on the same engine returns
\* either the not-found error or a complete value that some Set stored for
\* its key, never another error and never other bytes.
C17_GetSeesStoredValue ==
    \A t \in getters :
        thr[t].pc \in {"read", "done"}
            => \/ thr[t].err = "notfound"
               \/ thr[t].err = "nil" /\ thr[t].ret \in storedFor(thr[t].key)

\* C21: a Close on an engine that is already closed returns no error and
\* performs no file or lock operation: the directory, the holder of the
\* inter-process lock (another engine that acquired it after the first Close
\* included) and the engine itself stay as they were, and no system call fails.
C21_SecondCloseNoOp ==
    [][ \A e \in Engines :
          (exists(e) /\ ~isOpen(e) /\ last'.op = "Close" /\ last'.e = e)
              => /\ last'.err = "nil"
                 /\ files' = files
                 /\ flock' = flock
                 /\ engine' = engine
                 /\ nFaults' = nFaults ]_vars

\* A closed engine was closed again while another engine holds the lock.
C21_Witness ==
    /\ last.op = "Close" /\ last.e = handleOrder[1] /\ last.err = "nil"
    /\ flock = Ref(handleOrder[2])
    /\ isOpen(handleOrder[2])

\* C22: decoding the bytes that toBytes produced for a key and a value returns
\* a record with the same crc, timestamp, key size, value size, key and value,
\* and reports a consumed length of 28 + key size + value size.
C22_CodecRoundTrip ==
    (codec.entry # Nil /\ codec.dec # Nil)
        => LET ddfle == codec.entry[1]
               r     == codec.dec[1]
           IN  /\ r.err = "nil"
               /\ r.entry # Nil
               /\ r.entry[1].crc = ddfle.crc
               /\ r.entry[1].timeStamp = ddfle.timeStamp
               /\ r.entry[1].keySize = ddfle.keySize
               /\ r.entry[1].valueSize = ddfle.valueSize
               /\ r.entry[1].key = ddfle.key
               /\ r.entry[1].value = ddfle.value
               /\ r.entrySize = 28 + Len(ddfle.key) + Len(ddfle.value)

\* The second record of a buffer, with a key and a value of several bytes, was
\* decoded.
C22_Witness ==
    /\ codec.entry # Nil /\ codec.dec # Nil
    /\ codec.at > 0
    /\ codec.entry[1].key # <<>>
    /\ Len(codec.entry[1].value) > 1

\* The size fields of the header at offset 0 of the raw buffer.
rawKeySize == readInt64(SubSeq(codec.buf, 13, 20))
rawValueSize == readInt64(SubSeq(codec.buf, 21, 28))

\* C23: the decoder rejects a record whose header carries a key size or a value
\* size outside [0, 2^20] with the size error, whether or not payload bytes
\* follow the header (they are not read); sizes inside the range, exactly 2^20
\* included, pass the check, and the record is decoded when its bytes are there.
C23_SizeBounds ==
    (codec.entry = Nil /\ codec.dec # Nil)
        => LET r == codec.dec[1]
           IN  IF \/ rawKeySize < 0 \/ rawKeySize > 1048576
                  \/ rawValueSize < 0 \/ rawValueSize > 1048576
               THEN r = [err |-> "invalid entry size", entry |-> Nil, entrySize |-> 0]
               ELSE /\ r.err # "invalid entry size"
                    /\ Len(codec.buf) = 28 + rawKeySize + rawValueSize
                         => /\ r.err = "nil"
                            /\ Len(r.entry[1].key) = rawKeySize
                            /\ Len(r.entry[1].value) = rawValueSize

\* A header with a key size of 2^20 + 1, followed by a payload byte, was decoded.
C23_Witness ==
    /\ codec.entry = Nil /\ codec.dec # Nil
    /\ rawKeySize = 1048577
    /\ Len(codec.buf) > 28

\* C24: within one session the Bitcask engine and the in-memory engine are
\* observationally equivalent: after every Set, Get and Delete made with the
\* same arguments on both (every key and value, the empty key and the value
\* "<DELETED>" included) both returned the same success/error outcome and the
\* same value, as long as no system call failed.
C24_EnginesAgree ==
    (nFaults = 0 /\ last.op \in {"Set", "Get", "Delete"})
        => /\ inmem.last.op = last.op
           /\ (inmem.last.err = "nil") = (last.err = "nil")
           /\ inmem.last.ret = last.ret

reopened(fs, key) == getResult([keyDir |-> getKeyDir(fs, {}).keyDir], fs, key)

\* C25: Set(k, .) and Delete(k) on an open engine change the outcome of Get
\* only for k: for every other key, Get returns after the operation what it
\* returned before it, in the same session, and an engine that opens the
\* directory after the operation finds for that key what it would have found
\* without the operation.
C25_OtherKeysUnchanged ==
    [][ \A e \in Engines :
          (isOpen(e) /\ last'.op \in {"Set", "Delete"} /\ last'.e = e)
              => \A k \in Keys \ {last'.key} :
                     /\ getResult(engine'[e][1], files', k) = getResult(engine[e][1], files, k)
                     /\ reopened(files', k) = reopened(files, k) ]_vars

\* The store after the commands of script that precede its first "exit",
\* applied in order to the store hashMap.
RECURSIVE applied(_, _)
applied(script, hashMap) ==
    IF script = <<>> \/ Head(script).op = "exit" THEN hashMap
    ELSE applied(Tail(script),
                 IF Head(script).op = "set"
                 THEN mapPut(hashMap, Head(script).key, Head(script).value)
                 ELSE IF Head(script).op = "del"
                 THEN mapDelete(hashMap, Head(script).key)
                 ELSE hashMap)

\* C28: when runLoop returns, the store is the result of applying in order
\* exactly the well-formed "set k v" lines and the "del k" lines that precede
\* the first "exit" line (malformed lines and a last line without a newline
\* change nothing), and runLoop returns nil when there is an "exit" line and an
\* error when the input ends first.
C28_RunLoopStore ==
    loop.ret # "running"
        => /\ loop.hashMap = applied(loop.script, <<>>)
           /\ (loop.ret = "nil") = (\E i \in DOMAIN loop.script : loop.script[i].op = "exit")
           /\ loop.ret \in {"nil", "EOF"}

\* runLoop returned on "exit" after a set that was applied and a line that is
\* no command.
C28_Witness ==
    /\ loop.ret = "nil"
    /\ loop.hashMap # <<>>
    /\ \E i \in DOMAIN loop.script :
           loop.script[i].op = "none" /\ loop.script[i].text # <<>>

\* The key directory entry the startup scan makes of the record entry that it
\* read at position of log file fileId.
entryOf(fileId, position, entry) ==
    [ fileId        |-> fileId,
      valueSize     |-> entry.valueSize,
      valuePosition |-> position + headerSize + entry.keySize,
      timeStamp     |-> entry.timeStamp ]

\* The record the startup scan reads next, when it is in a log file.
scanned == readEntry(files[scan.fileId], scan.position)

\* C29: when the startup scan reads a record that is not a tombstone, the
\* directory entry of its key becomes the entry of this record if and only if
\* the key is absent from the directory or the timestamp of the record is
\* strictly greater than the timestamp of the entry; otherwise the directory
\* stays as it is.  The entries of the other keys stay in both cases.
C29_ReplaceIffNewer ==
    [][ (scan.pc = "read" /\ scan'.position # scan.position
            /\ scanned.entry[1].value # tombstone)
        => LET entry  == scanned.entry[1]
               k      == entry.key
               record == entryOf(scan.fileId, scan.position, entry)
               newer  == \/ k \notin DOMAIN scan.keyDir
                         \/ entry.timeStamp > scan.keyDir[k].timeStamp
           IN  /\ k \in DOMAIN scan'.keyDir
               /\ (scan'.keyDir[k] = record) <=> newer
               /\ ~newer => scan'.keyDir = scan.keyDir
               /\ \A other \in Keys \ {k} :
                     /\ (other \in DOMAIN scan'.keyDir) <=> (other \in DOMAIN scan.keyDir)
                     /\ other \in DOMAIN scan.keyDir
                            => scan'.keyDir[other] = scan.keyDir[other] ]_vars

\* The scan has read three records of key "a" in log file 1, with the
\* timestamps 1, 2 and 1: the second replaced the entry of the first, and the
\* third was dropped.
C29_Witness ==
    /\ scan.pc = "read" /\ scan.fileId = 1 /\ scan.position = Len(files[1])
    /\ LET f  == files[1]
           r1 == readEntry(f, 0)
           r2 == readEntry(f, r1.entrySize)
           r3 == readEntry(f, r1.entrySize + r2.entrySize)
       IN  /\ r1.err = "nil" /\ r2.err = "nil" /\ r3.err = "nil"
           /\ scan.position = r1.entrySize + r2.entrySize + r3.entrySize
           /\ \A r \in {r1, r2, r3} : r.entry[1].key = <<97>> /\ r.entry[1].value # tombstone
           /\ r1.entry[1].timeStamp = 1 /\ r2.entry[1].timeStamp = 2
           /\ r3.entry[1].timeStamp = 1
           /\ scan.keyDir[<<97>>] = entryOf(1, r1.entrySize, r2.entry[1])

\* C30: when log file 1 holds two records of one key, neither a tombstone,
\* with equal timestamps, and no other log file holds a record, the directory
\* entry of the key in the engine that the startup returns is the entry of the
\* second record, the one written later.
C30_EqualTimestampLaterWins ==
    (scan.pc = "returned" /\ exists(shared) /\ scan.unreadable = {})
        => LET f  == files[1]
               r1 == readEntry(f, 0)
               r2 == readEntry(f, r1.entrySize)
           IN  ( /\ \A id \in DOMAIN files \ {1} : files[id] = <<>>
                 /\ r1.err = "nil" /\ r2.err = "nil"
                 /\ Len(f) = r1.entrySize + r2.entrySize
                 /\ r1.entry[1].key = r2.entry[1].key
                 /\ r1.entry[1].value # tombstone /\ r2.entry[1].value # tombstone
                 /\ r1.entry[1].timeStamp = r2.entry[1].timeStamp )
               => /\ r2.entry[1].key \in DOMAIN keyDirOf(shared)
                  /\ keyDirOf(shared)[r2.entry[1].key] = entryOf(1, r1.entrySize, r2.entry[1])

cutAtError(fs) == [id \in DOMAIN fs |-> SubSeq(fs[id], 1, firstError(fs[id], 0))]

\* C31: when no system call fails and the lock is free, the startup returns
\* an engine whatever the log files hold, and its key directory is the one of
\* the records that precede the first decode error in each log file: the
\* records before the error are kept, the rest of that file is dropped, and
\* every other log file is scanned.
C31_DecodeErrorStopsFileOnly ==
    (scan.pc = "returned" /\ last.op = "New" /\ last.err # "locked" /\ nFaults = 0)
        => /\ exists(shared)
           /\ last.err = "nil"
           /\ keyDirOf(shared) = getKeyDir(cutAtError(files), {}).keyDir

\* The startup returned an engine on a directory whose first log file has a
\* record of "a", then a corrupt header, then more bytes: "a" is in the key
\* directory from file 1 and the empty key from file 2.
C31_Witness ==
    /\ scan.pc = "returned" /\ exists(shared) /\ nFaults = 0
    /\ 2 \in DOMAIN files
    /\ 0 < firstError(files[1], 0)
    /\ firstError(files[1], 0) + headerSize < Len(files[1])
    /\ readEntry(files[1], firstError(files[1], 0)).err = "invalid entry size"
    /\ <<97>> \in DOMAIN keyDirOf(shared) /\ keyDirOf(shared)[<<97>>].fileId = 1
    /\ <<>> \in DOMAIN keyDirOf(shared) /\ keyDirOf(shared)[<<>>].fileId = 2

\* Goroutine t is in the critical section of its call: it has bcse.mu and has
\* not released it.
inside(t) == thr[t].pc \notin {"start", "done"}

\* The methods that take the exclusive side of bcse.mu.
writerCalls == {"Set", "Delete", "Close"}

\* C32: two goroutines are in their critical sections at the same time only
\* when both are in Get, so no Set, Delete or Close is there together with
\* any other call; and a Get that has not started is not blocked when the
\* only calls still to return are Gets.
C32_ReaderWriterDiscipline ==
    /\ \A t, u \in Threads :
          (t # u /\ inside(t) /\ inside(u)) => (thr[t].op = "Get" /\ thr[u].op = "Get")
    /\ \A t \in Threads :
          ( /\ thr[t].op = "Get" /\ thr[t].pc = "start"
            /\ \A u \in Threads : thr[u].op \in writerCalls => thr[u].pc = "done" )
          => ENABLED GetRLock(t)

\* Two goroutines are in the critical section of Get together and a third one
\* is about to call Get.
C32_Witness ==
    /\ \E t, u \in Threads : t # u /\ inside(t) /\ inside(u)
    /\ \E t \in Threads : thr[t].op = "Get" /\ thr[t].pc = "start"
    /\ last.op = "New"

\* Every goroutine has returned from its call.
allCallsReturned == \A t \in Threads : thr[t].pc = "done"

C33_SetEntryIsScanEntry ==
    [][ (last'.op = "Set" /\ last'.err = "nil" /\ files' # files)
        => LET e           == last'.e
               fileId      == activeFileId(e)
               recordStart == Len(files[fileId])
               r           == readEntry(files'[fileId], recordStart)
           IN  /\ r.err = "nil"
               /\ r.entry[1].key = last'.key
               /\ engine'[e][1].keyDir[last'.key] = entryOf(fileId, recordStart, r.entry[1]) ]_vars

\* The bytes in the log files of directory fs at the directory entry keyData.
bytesAt(fs, keyData) ==
    getLogValue(fs, keyData.fileId, keyData.valuePosition, keyData.valueSize)

\* C34: a Get of a key that is in the key directory, when the bytes at its
\* entry can be read, fails with not-found if the bytes are the tombstone
\* "<DELETED>", the key staying in the directory, and returns exactly the
\* bytes otherwise.
C34_SentinelValueNotFound ==
    [][ (last'.op = "Get" /\ last'.key \in DOMAIN keyDirOf(last'.e)
            /\ bytesAt(files, keyDirOf(last'.e)[last'.key]).err = "nil")
        => LET bytes == bytesAt(files, keyDirOf(last'.e)[last'.key]).value
           IN  /\ last'.key \in DOMAIN engine'[last'.e][1].keyDir
               /\ IF bytes = tombstone
                  THEN last'.err = "notfound" /\ last'.ret = <<>>
                  ELSE last'.err = "nil" /\ last'.ret = bytes ]_vars

\* A Get answered not-found for a key that is in the key directory, with an
\* entry that points at the nine bytes of the tombstone.
C34_Witness ==
    /\ last.op = "Get" /\ last.err = "notfound"
    /\ last.key \in DOMAIN keyDirOf(last.e)
    /\ bytesAt(files, keyDirOf(last.e)[last.key]) = [value |-> tombstone, err |-> "nil"]

\* C39: a Get, successful or not, leaves the key directory, the active log
\* with its tracked append position, every log file, the open file handles
\* and the locks as they were.
C39_GetIsReadOnly ==
    [][ last'.op = "Get"
        => /\ engine' = engine /\ files' = files
           /\ flock' = flock /\ mu' = mu /\ fds' = fds ]_vars

\* A Get failed with not-found on an engine that holds an entry for the key
\* and has appended to its active log.
C39_Witness ==
    /\ last.op = "Get" /\ last.err = "notfound"
    /\ last.key \in DOMAIN keyDirOf(last.e)
    /\ engine[last.e][1].activeLog # Nil
    /\ engine[last.e][1].activeLog[1].writerPosition > 0

\* C40: an open rejected because the directory is locked creates no log
\* file, uses no file id, and leaves the engine that holds the directory
\* (key directory, active log) and the lock untouched.
C40_RejectedOpenHasNoEffect ==
    [][ (last'.op = "New" /\ last'.err = "locked")
        => /\ files' = files /\ maxOf(DOMAIN files') = maxOf(DOMAIN files)
           /\ engine' = engine /\ flock' = flock /\ fds' = fds ]_vars

\* An open was rejected as locked while another handle holds the directory
\* with an entry in its key directory and an active log.
C40_Witness ==
    /\ last.op = "New" /\ last.err = "locked"
    /\ \E e \in Engines :
          /\ isOpen(e) /\ flock = Ref(e) /\ e # last.e
          /\ DOMAIN keyDirOf(e) # {}

\* C37: a Set that succeeds after an append of the same session failed with
\* part of its record written is found with its value by an engine that
\* opens the directory after Close (the value not being the tombstone).
C37_LaterWritesSurvivePartialAppend ==
    ( /\ last.op = "Set" /\ last.err = "nil" /\ isOpen(last.e)
      /\ tail[activeFileId(last.e)] = -1
      /\ last.value # tombstone )
        => reopened(files, last.key) = found(last.value)

\* The log file f holds exactly two records of key: a value, then the
\* tombstone.
setDelete(f, key) ==
    LET r1 == readEntry(f, 0)
        r2 == readEntry(f, r1.entrySize)
    IN  /\ r1.err = "nil" /\ r1.entry[1].key = key
        /\ r2.err = "nil" /\ r2.entry[1].key = key /\ r2.entry[1].value = tombstone
        /\ Len(f) = r1.entrySize + r2.entrySize

\* C35: when Set(k, v2) succeeds right after a successful Delete(k) that
\* followed a successful Set(k, v1), with any clock readings of the three
\* records, Get(k) returns v2, on the engine of the session and on an engine
\* that opens the directory afterwards.
C35_SetAfterDeleteIsLive ==
    [][ ( /\ last.op = "Delete" /\ last.err = "nil"
          /\ last'.op = "Set" /\ last'.err = "nil"
          /\ last'.key = last.key /\ last'.e = last.e
          /\ nFaults' = 0
          /\ setDelete(files[1], last.key) )
        => /\ getResult(engine'[last.e][1], files', last.key) = found(last'.value)
           /\ reopened(files', last.key) = found(last'.value) ]_vars

\* C36: the record that a successful Set appended is accepted by readEntry at
\* the next startup scan, which enters the key with the entry that Set stored,
\* whatever the size of the value.
C36_StoredRecordIsScanned ==
    (sized.pc = "scanned" /\ sized.err = "nil")
        => /\ sized.decoded = "nil"
           /\ sized.key \in DOMAIN sized.keyDir
           /\ sized.keyDir[sized.key] = sized.stored[1]
====
